---- MODULE Spec2Model ----
(***************************************************************************)
(* Control loop of the ESP8266 home-automation node, in its two firmware   *)
(* variants:                                                               *)
(*   "pwm"   Code_ESP32_Firebase/Code_ESP32_Firebase.ino (L298N, PWM)      *)
(*   "relay" unnamed/part_000 (motor behind a relay)                       *)
(* The firmware's globals, its output pins and the remote datastore are    *)
(* the fields of the record s.  One action per handler call of loop().     *)
(* Temperatures are in tenths of a degree Celsius.                         *)
(***************************************************************************)
EXTENDS Integers, Sequences, FiniteSets, TLC

VARIABLES
  fw,      \* firmware variant, "pwm" or "relay"
  env,     \* environment the run is checked under (fixed by Init)
  pc,      \* position of loop()
  now,     \* millis()
  iter,    \* loop iterations started
  s        \* globals, pins (s.pin), datastore (s.db), per-step observations

vars == <<fw, env, pc, now, iter, s>>

\* ------------------------------------------------------------- constants
LDR_THRESHOLD == 400
LDR_HYSTERESIS == 50
TEMP_THRESHOLD == 330
TEMP_HYSTERESIS == 20
DEBOUNCE_DELAY == 100
DEBOUNCE_DELAY_MS == 80
MAX_MOTOR_PWM == 204
MAX_NOTIFICATIONS_PER_MINUTE == 10
MAX_NOTIFICATIONS_PER_MIN == 10
SENSOR_READ_INTERVAL == 100
SENSOR_READ_INTERVAL_MS == 200
DHT_READ_INTERVAL_MS == 10000
FIREBASE_UPDATE_MS == 5000
MOTION_LED_TIMEOUT == 5000
MOTION_LED_TIMEOUT_MS == 8000
NOTIFICATION_MINUTE_MS == 60000
MOTION_DEBOUNCE_MS == 150
PIR_DEBOUNCE_MS == 100
\* millis() and the timestamps are unsigned long: arithmetic modulo a power of
\* two.  The checker's integers are 32-bit signed, so the modulus is 2^30 here;
\* only the runs of "wrap" cross it.
ClockMod == 1073741824

HIGH == TRUE
LOW == FALSE
\* an optional value: <<v>> holds v, <<>> holds nothing
Some(v) == <<v>>
\* a float that is not a number (a failed DHT read)
NaN == <<>>
isnan(x) == x = NaN

\* a - b in unsigned long arithmetic
usub(a, b) == (a - b + ClockMod) % ClockMod
uadd(a, b) == (a + b) % ClockMod

\* Arduino map(): integer arithmetic, division truncating
map(x, in_min, in_max, out_min, out_max) ==
  ((x - in_min) * (out_max - out_min)) \div (in_max - in_min) + out_min

\* ---------------------------------------------------- pins and datastore
\* digitalWrite: sets one pin; the observation bothHigh records whether the
\* two L298N direction lines were HIGH together after any single write.
digitalWrite(st, pin, level) ==
  LET s1 == [st EXCEPT !.pin[pin] = level]
  IN  IF fw = "pwm"
      THEN [s1 EXCEPT !.bothHigh =
              st.bothHigh \/ (s1.pin.MOTOR_IN1_PIN /\ s1.pin.MOTOR_IN2_PIN)]
      ELSE s1

\* analogWrite: sets the duty of a pin; dutyMax records the largest duty
\* written during the step.
analogWrite(st, pin, duty) ==
  [st EXCEPT !.pin[pin] = duty,
             !.dutyMax = IF duty > st.dutyMax THEN duty ELSE st.dutyMax]

\* Firebase.setBool / setInt / setFloat / setString: best effort, the write
\* of a path in st.fail does not reach the store.
FirebaseSet(st, path, v) ==
  IF path \in st.fail THEN st ELSE [st EXCEPT !.db[path] = Some(v)]

\* Firebase.getBool / getInt / getString: FALSE when the read fails.
FirebaseGet(st, path) == path \notin st.fail

\* --------------------------------------------------------- notifications
\* one submission to sendNotification, as observed during the step
Submission(type, actor, message, emitted, t) ==
  [type |-> type, actor |-> actor, message |-> message,
   emitted |-> emitted, key |-> t]

\* millis() as sendNotification reads it: t is the clock its caller read when
\* it was entered, st.tick - st.tick0 the milliseconds that have passed since.
clock(st, t) == uadd(t, st.tick - st.tick0)

\* the five writes under /notifications/{currentTime}: the record is appended
\* to the notifications of the store, in the order of writing, with the
\* counting window it was written in; the writes take st.lag milliseconds.
\* Nothing reaches the store while the writes under /notifications fail.
writeNotification(st, currentTime, type, actor, message) ==
  [st EXCEPT !.notifications =
               IF "/notifications" \in st.fail
               THEN @
               ELSE Append(@, [key |-> currentTime, type |-> type, actor |-> actor,
                               message |-> message,
                               window |-> st.notificationMinuteStart]),
             !.tick = st.tick + st.lag]

\* sendNotification refusing only above the cap, not at it.
sendNotification_CapOffByOne(st, t, type, actor, message) ==
  LET currentTime == clock(st, t)
  IN  IF st.notificationCount > MAX_NOTIFICATIONS_PER_MINUTE
      THEN [st EXCEPT !.sub = Append(st.sub,
                                Submission(type, actor, message, FALSE, currentTime))]
      ELSE IF usub(currentTime, st.lastNotificationTime) < 2000 /\ type = "motion"
      THEN [st EXCEPT !.sub = Append(st.sub,
                                Submission(type, actor, message, FALSE, currentTime))]
      ELSE LET a == writeNotification(st, currentTime, type, actor, message)
           IN  [a EXCEPT !.notificationCount = a.notificationCount + 1,
                         !.lastNotificationTime = currentTime,
                         !.sub = Append(a.sub,
                                   Submission(type, actor, message, TRUE, currentTime))]

\* sendNotification stamping lastNotificationTime when it suppresses a motion event.
sendNotification_StampsDrop(st, t, type, actor, message) ==
  LET currentTime == clock(st, t)
  IN  IF st.notificationCount >= MAX_NOTIFICATIONS_PER_MINUTE
      THEN [st EXCEPT !.sub = Append(st.sub,
                                Submission(type, actor, message, FALSE, currentTime))]
      ELSE IF usub(currentTime, st.lastNotificationTime) < 2000 /\ type = "motion"
      THEN [st EXCEPT !.lastNotificationTime = currentTime,
                      !.sub = Append(st.sub,
                                Submission(type, actor, message, FALSE, currentTime))]
      ELSE LET a == writeNotification(st, currentTime, type, actor, message)
           IN  [a EXCEPT !.notificationCount = a.notificationCount + 1,
                         !.lastNotificationTime = currentTime,
                         !.sub = Append(a.sub,
                                   Submission(type, actor, message, TRUE, currentTime))]

sendNotification(st, t, type, actor, message) ==
  LET currentTime == clock(st, t)
  IN  IF st.notificationCount >= MAX_NOTIFICATIONS_PER_MINUTE
      THEN [st EXCEPT !.sub = Append(st.sub,
                                Submission(type, actor, message, FALSE, currentTime))]
      ELSE IF usub(currentTime, st.lastNotificationTime) < 2000 /\ type = "motion"
      THEN [st EXCEPT !.sub = Append(st.sub,
                                Submission(type, actor, message, FALSE, currentTime))]
      ELSE LET a == writeNotification(st, currentTime, type, actor, message)
           IN  [a EXCEPT !.notificationCount = a.notificationCount + 1,
                         !.lastNotificationTime = currentTime,
                         !.sub = Append(a.sub,
                                   Submission(type, actor, message, TRUE, currentTime))]

\* ------------------------------------------------------ actuator outputs
updateMotorControl(st) ==
  IF st.motorOn
  THEN LET s1 == IF st.motorDirection = "forward"
                 THEN digitalWrite(digitalWrite(st, "MOTOR_IN1_PIN", HIGH),
                                   "MOTOR_IN2_PIN", LOW)
                 ELSE digitalWrite(digitalWrite(st, "MOTOR_IN1_PIN", LOW),
                                   "MOTOR_IN2_PIN", HIGH)
           pwmValue == map(st.motorSpeed, 0, 100, 0, MAX_MOTOR_PWM)
       IN  analogWrite(s1, "MOTOR_PWM_PIN", pwmValue)
  ELSE analogWrite(digitalWrite(digitalWrite(st, "MOTOR_IN1_PIN", LOW),
                                "MOTOR_IN2_PIN", LOW),
                   "MOTOR_PWM_PIN", 0)

updateLEDControl(st) ==
  digitalWrite(digitalWrite(st, "LED1_PIN", st.led1On), "LED2_PIN", st.led2On)

\* ------------------------------------------------- PWM firmware handlers
\* a value absent from the store: reading it fails
Absent == <<>>

\* Firebase.getX(path) succeeded: the call did not fail and the path holds a value
Got(st, path) == FirebaseGet(st, path) /\ st.db[path] # Absent

\* lines 150-154 of loop(): the per-minute counter reset
resetNotificationCounter(st, currentTime) ==
  IF usub(currentTime, st.notificationMinuteStart) > 60000
  THEN [st EXCEPT !.notificationCount = 0, !.notificationMinuteStart = currentTime]
  ELSE st

readSensors(st, t, currentMotion, lux) ==
  LET s1 ==
        IF currentMotion = HIGH
        THEN LET a == digitalWrite(st, "MOTION_LED_PIN", HIGH)
             IN  IF a.lastMotionState = LOW
                 THEN LET b == [a EXCEPT !.motionDetected = TRUE,
                                         !.lastMotionState = HIGH,
                                         !.lastMotionChangeTime = t,
                                         !.motionLedOn = TRUE,
                                         !.motionLedOffTime = uadd(t, MOTION_LED_TIMEOUT)]
                          c == sendNotification(b, t, "motion", "PIR", "Motion detected!")
                      IN  FirebaseSet(c, "/state/motion", TRUE)
                 ELSE a
        ELSE LET a == digitalWrite(st, "MOTION_LED_PIN", LOW)
             IN  IF a.lastMotionState = HIGH
                 THEN FirebaseSet([a EXCEPT !.motionDetected = FALSE,
                                            !.lastMotionState = LOW,
                                            !.lastMotionChangeTime = t],
                                  "/state/motion", FALSE)
                 ELSE a
  IN  [s1 EXCEPT !.ldrValue = lux]

readDHTSensor(st, newTemp, newHum) ==
  IF ~isnan(newTemp) /\ ~isnan(newHum)
  THEN [st EXCEPT !.temperature = newTemp[1], !.humidity = newHum[1]]
  ELSE st

\* lines 168-173 of loop(): motion LED auto-off
motionLedTimeout(st, currentTime) ==
  IF st.motionLedOn /\ ~st.motionDetected /\ currentTime >= st.motionLedOffTime
  THEN digitalWrite([st EXCEPT !.motionLedOn = FALSE], "MOTION_LED_PIN", LOW)
  ELSE st

\* motorSwitch whose accepted press always selects Manual mode.
motorSwitch_OneWay(st, currentTime, motorButtonPressed) ==
  IF motorButtonPressed /\ ~st.motorSwitchPressed
     /\ usub(currentTime, st.lastMotorSwitchTime) > DEBOUNCE_DELAY
  THEN LET a == [st EXCEPT !.motorSwitchPressed = TRUE,
                           !.lastMotorSwitchTime = currentTime,
                           !.motorsManual = TRUE,
                           !.motorOn = TRUE]
           b == updateMotorControl(a)
           c == FirebaseSet(b, "/controls/motor/manual", b.motorsManual)
           d == FirebaseSet(c, "/controls/motor/on", c.motorOn)
       IN  sendNotification(d, currentTime, "manual", "switch_motor",
             IF d.motorsManual THEN "Motor manually turned ON"
                               ELSE "Motor manually turned OFF")
  ELSE IF ~motorButtonPressed /\ st.motorSwitchPressed
  THEN [st EXCEPT !.motorSwitchPressed = FALSE]
  ELSE st

\* lines 300-327: the motor switch
motorSwitch(st, currentTime, motorButtonPressed) ==
  IF motorButtonPressed /\ ~st.motorSwitchPressed
     /\ usub(currentTime, st.lastMotorSwitchTime) > DEBOUNCE_DELAY
  THEN LET a == [st EXCEPT !.motorSwitchPressed = TRUE,
                           !.lastMotorSwitchTime = currentTime,
                           !.motorsManual = ~st.motorsManual,
                           !.motorOn = ~st.motorsManual]
           b == updateMotorControl(a)
           c == FirebaseSet(b, "/controls/motor/manual", b.motorsManual)
           d == FirebaseSet(c, "/controls/motor/on", c.motorOn)
       IN  sendNotification(d, currentTime, "manual", "switch_motor",
             IF d.motorsManual THEN "Motor manually turned ON"
                               ELSE "Motor manually turned OFF")
  ELSE IF ~motorButtonPressed /\ st.motorSwitchPressed
  THEN [st EXCEPT !.motorSwitchPressed = FALSE]
  ELSE st

\* lines 329-359: the LEDs switch
ledsSwitch(st, currentTime, ledsButtonPressed) ==
  IF ledsButtonPressed /\ ~st.ledsSwitchPressed
     /\ usub(currentTime, st.lastLedsSwitchTime) > DEBOUNCE_DELAY
  THEN LET a == [st EXCEPT !.ledsSwitchPressed = TRUE,
                           !.lastLedsSwitchTime = currentTime,
                           !.ledsManual = ~st.ledsManual,
                           !.led1On = ~st.ledsManual,
                           !.led2On = ~st.ledsManual]
           b == updateLEDControl(a)
           c == FirebaseSet(b, "/controls/led1/manual", b.ledsManual)
           d == FirebaseSet(c, "/controls/led1/on", c.led1On)
           e == FirebaseSet(d, "/controls/led2/manual", d.ledsManual)
           f == FirebaseSet(e, "/controls/led2/on", e.led2On)
       IN  sendNotification(f, currentTime, "manual", "switch_leds",
             IF f.ledsManual THEN "LEDs manually turned ON"
                             ELSE "LEDs manually turned OFF")
  ELSE IF ~ledsButtonPressed /\ st.ledsSwitchPressed
  THEN [st EXCEPT !.ledsSwitchPressed = FALSE]
  ELSE st

checkManualSwitches(st, currentTime, motorButtonPressed, ledsButtonPressed) ==
  ledsSwitch(motorSwitch(st, currentTime, motorButtonPressed),
             currentTime, ledsButtonPressed)

\* pullMotorOn without its Manual-mode guard: the remote on/off value is
\* applied whatever the mode is.
pullMotorOn_IgnoringManual(st, t) ==
  IF Got(st, "/controls/motor/on")
  THEN LET newMotorOn == st.db["/controls/motor/on"][1]
       IN  IF newMotorOn # st.motorOn
           THEN LET a == updateMotorControl([st EXCEPT !.motorOn = newMotorOn])
                IN  sendNotification(a, t, "manual", "dashboard_user",
                      IF a.motorOn THEN "Motor turned ON via dashboard"
                                   ELSE "Motor turned OFF via dashboard")
           ELSE st
  ELSE st

\* pullMotorOn putting the motor into Manual mode when it applies a remote "on".
pullMotorOn_ForcesManual(st, t) ==
  IF Got(st, "/controls/motor/on")
  THEN LET newMotorOn == st.db["/controls/motor/on"][1]
       IN  IF newMotorOn # st.motorOn /\ ~st.motorsManual
           THEN LET a == updateMotorControl([st EXCEPT !.motorOn = newMotorOn,
                                                            !.motorsManual = newMotorOn])
                IN  sendNotification(a, t, "manual", "dashboard_user",
                      IF a.motorOn THEN "Motor turned ON via dashboard"
                                   ELSE "Motor turned OFF via dashboard")
           ELSE st
  ELSE st

\* lines 368-378: /controls/motor/on
pullMotorOn(st, t) ==
  IF Got(st, "/controls/motor/on")
  THEN LET newMotorOn == st.db["/controls/motor/on"][1]
       IN  IF newMotorOn # st.motorOn /\ ~st.motorsManual
           THEN LET a == updateMotorControl([st EXCEPT !.motorOn = newMotorOn])
                IN  sendNotification(a, t, "manual", "dashboard_user",
                      IF a.motorOn THEN "Motor turned ON via dashboard"
                                   ELSE "Motor turned OFF via dashboard")
           ELSE st
  ELSE st

\* pullMotorSpeed without its range check: any remote integer becomes the speed.
pullMotorSpeed_Unchecked(st) ==
  IF Got(st, "/controls/motor/speed")
  THEN LET newSpeed == st.db["/controls/motor/speed"][1]
       IN  IF newSpeed # st.motorSpeed
           THEN LET a == [st EXCEPT !.motorSpeed = newSpeed]
                IN  IF a.motorOn THEN updateMotorControl(a) ELSE a
           ELSE st
  ELSE st

\* pullMotorSpeed that stores the new speed and leaves the outputs alone.
pullMotorSpeed_NotApplied(st) ==
  IF Got(st, "/controls/motor/speed")
  THEN LET newSpeed == st.db["/controls/motor/speed"][1]
       IN  IF newSpeed # st.motorSpeed /\ newSpeed >= 0 /\ newSpeed <= 100
           THEN LET a == [st EXCEPT !.motorSpeed = newSpeed]
                IN  a
           ELSE st
  ELSE st

\* lines 380-386: /controls/motor/speed
pullMotorSpeed(st) ==
  IF Got(st, "/controls/motor/speed")
  THEN LET newSpeed == st.db["/controls/motor/speed"][1]
       IN  IF newSpeed # st.motorSpeed /\ newSpeed >= 0 /\ newSpeed <= 100
           THEN LET a == [st EXCEPT !.motorSpeed = newSpeed]
                IN  IF a.motorOn THEN updateMotorControl(a) ELSE a
           ELSE st
  ELSE st

\* pullMotorDirection that stores the new direction and leaves the outputs alone.
pullMotorDirection_NotApplied(st) ==
  IF Got(st, "/controls/motor/direction")
  THEN LET newDirection == st.db["/controls/motor/direction"][1]
       IN  IF newDirection # st.motorDirection
              /\ (newDirection = "forward" \/ newDirection = "reverse")
           THEN LET a == [st EXCEPT !.motorDirection = newDirection]
                IN  a
           ELSE st
  ELSE st

\* pullMotorDirection without its check of the value: any remote string becomes
\* the direction.
pullMotorDirection_Unchecked(st) ==
  IF Got(st, "/controls/motor/direction")
  THEN LET newDirection == st.db["/controls/motor/direction"][1]
       IN  IF newDirection # st.motorDirection
           THEN LET a == [st EXCEPT !.motorDirection = newDirection]
                IN  IF a.motorOn THEN updateMotorControl(a) ELSE a
           ELSE st
  ELSE st

\* lines 388-394: /controls/motor/direction
pullMotorDirection(st) ==
  IF Got(st, "/controls/motor/direction")
  THEN LET newDirection == st.db["/controls/motor/direction"][1]
       IN  IF newDirection # st.motorDirection
              /\ (newDirection = "forward" \/ newDirection = "reverse")
           THEN LET a == [st EXCEPT !.motorDirection = newDirection]
                IN  IF a.motorOn THEN updateMotorControl(a) ELSE a
           ELSE st
  ELSE st

\* lines 396-398 and 424-426: the auto_enabled flags
pullAutoEnabled(st, path, field) ==
  IF Got(st, path) THEN [st EXCEPT ![field] = st.db[path][1]] ELSE st

\* lines 400-410: /controls/led1/on
pullLed1On(st, t) ==
  IF Got(st, "/controls/led1/on")
  THEN LET newLed1On == st.db["/controls/led1/on"][1]
       IN  IF newLed1On # st.led1On /\ ~st.ledsManual
           THEN LET a == updateLEDControl([st EXCEPT !.led1On = newLed1On])
                IN  sendNotification(a, t, "manual", "dashboard_user",
                      IF a.led1On THEN "LED1 turned ON via dashboard"
                                  ELSE "LED1 turned OFF via dashboard")
           ELSE st
  ELSE st

\* lines 412-422: /controls/led2/on
pullLed2On(st, t) ==
  IF Got(st, "/controls/led2/on")
  THEN LET newLed2On == st.db["/controls/led2/on"][1]
       IN  IF newLed2On # st.led2On /\ ~st.ledsManual
           THEN LET a == updateLEDControl([st EXCEPT !.led2On = newLed2On])
                IN  sendNotification(a, t, "manual", "dashboard_user",
                      IF a.led2On THEN "LED2 turned ON via dashboard"
                                  ELSE "LED2 turned OFF via dashboard")
           ELSE st
  ELSE st

checkFirebaseControls(st, t) ==
  IF usub(t, st.lastFirebaseControlCheck) < 1000
  THEN st
  ELSE LET a == [st EXCEPT !.lastFirebaseControlCheck = t]
           b == pullMotorOn(a, t)
           c == pullMotorSpeed(b)
           d == pullMotorDirection(c)
           e == pullAutoEnabled(d, "/controls/motor/auto_enabled", "autoMotorEnabled")
           f == pullLed1On(e, t)
           g == pullLed2On(f, t)
       IN  pullAutoEnabled(g, "/controls/led1/auto_enabled", "autoLightEnabled")

updateFirebaseSensors(st, t) ==
  LET a == FirebaseSet(st, "/sensors/temperature", st.temperature)
      b == FirebaseSet(a, "/sensors/humidity", a.humidity)
      c == FirebaseSet(b, "/sensors/lux", b.ldrValue)
  IN  FirebaseSet(c, "/meta/last_seen", t)

\* autoLight without its Manual-mode guard.
autoLight_IgnoringManual(st, t) ==
  IF st.autoLightEnabled
  THEN IF st.ldrValue < LDR_THRESHOLD /\ ~st.autoLightTriggered
       THEN LET a == updateLEDControl([st EXCEPT !.led1On = TRUE, !.led2On = TRUE,
                                                 !.autoLightTriggered = TRUE])
                b == FirebaseSet(a, "/controls/led1/on", TRUE)
                c == FirebaseSet(b, "/controls/led2/on", TRUE)
            IN  sendNotification(c, t, "auto", "auto_light",
                  "Lights automatically turned ON (low light detected)")
       ELSE IF st.ldrValue > (LDR_THRESHOLD + 50) /\ st.autoLightTriggered
       THEN LET a == updateLEDControl([st EXCEPT !.led1On = FALSE, !.led2On = FALSE,
                                                 !.autoLightTriggered = FALSE])
                b == FirebaseSet(a, "/controls/led1/on", FALSE)
                c == FirebaseSet(b, "/controls/led2/on", FALSE)
            IN  sendNotification(c, t, "auto", "auto_light_off",
                  "Lights automatically turned OFF (bright environment)")
       ELSE st
  ELSE st

\* autoLight switching off as soon as the reading exceeds LDR_THRESHOLD.
autoLight_NoHysteresis(st, t) ==
  IF st.autoLightEnabled /\ ~st.ledsManual
  THEN IF st.ldrValue < LDR_THRESHOLD /\ ~st.autoLightTriggered
       THEN LET a == updateLEDControl([st EXCEPT !.led1On = TRUE, !.led2On = TRUE,
                                                 !.autoLightTriggered = TRUE])
                b == FirebaseSet(a, "/controls/led1/on", TRUE)
                c == FirebaseSet(b, "/controls/led2/on", TRUE)
            IN  sendNotification(c, t, "auto", "auto_light",
                  "Lights automatically turned ON (low light detected)")
       ELSE IF st.ldrValue > LDR_THRESHOLD /\ st.autoLightTriggered
       THEN LET a == updateLEDControl([st EXCEPT !.led1On = FALSE, !.led2On = FALSE,
                                                 !.autoLightTriggered = FALSE])
                b == FirebaseSet(a, "/controls/led1/on", FALSE)
                c == FirebaseSet(b, "/controls/led2/on", FALSE)
            IN  sendNotification(c, t, "auto", "auto_light_off",
                  "Lights automatically turned OFF (bright environment)")
       ELSE st
  ELSE st

\* autoLight switching off at the upper edge of the band, not only above it.
autoLight_OffAtBandEdge(st, t) ==
  IF st.autoLightEnabled /\ ~st.ledsManual
  THEN IF st.ldrValue < LDR_THRESHOLD /\ ~st.autoLightTriggered
       THEN LET a == updateLEDControl([st EXCEPT !.led1On = TRUE, !.led2On = TRUE,
                                                 !.autoLightTriggered = TRUE])
                b == FirebaseSet(a, "/controls/led1/on", TRUE)
                c == FirebaseSet(b, "/controls/led2/on", TRUE)
            IN  sendNotification(c, t, "auto", "auto_light",
                  "Lights automatically turned ON (low light detected)")
       ELSE IF st.ldrValue >= (LDR_THRESHOLD + 50) /\ st.autoLightTriggered
       THEN LET a == updateLEDControl([st EXCEPT !.led1On = FALSE, !.led2On = FALSE,
                                                 !.autoLightTriggered = FALSE])
                b == FirebaseSet(a, "/controls/led1/on", FALSE)
                c == FirebaseSet(b, "/controls/led2/on", FALSE)
            IN  sendNotification(c, t, "auto", "auto_light_off",
                  "Lights automatically turned OFF (bright environment)")
       ELSE st
  ELSE st

\* lines 443-464: automatic lighting
autoLight(st, t) ==
  IF st.autoLightEnabled /\ ~st.ledsManual
  THEN IF st.ldrValue < LDR_THRESHOLD /\ ~st.autoLightTriggered
       THEN LET a == updateLEDControl([st EXCEPT !.led1On = TRUE, !.led2On = TRUE,
                                                 !.autoLightTriggered = TRUE])
                b == FirebaseSet(a, "/controls/led1/on", TRUE)
                c == FirebaseSet(b, "/controls/led2/on", TRUE)
            IN  sendNotification(c, t, "auto", "auto_light",
                  "Lights automatically turned ON (low light detected)")
       ELSE IF st.ldrValue > (LDR_THRESHOLD + 50) /\ st.autoLightTriggered
       THEN LET a == updateLEDControl([st EXCEPT !.led1On = FALSE, !.led2On = FALSE,
                                                 !.autoLightTriggered = FALSE])
                b == FirebaseSet(a, "/controls/led1/on", FALSE)
                c == FirebaseSet(b, "/controls/led2/on", FALSE)
            IN  sendNotification(c, t, "auto", "auto_light_off",
                  "Lights automatically turned OFF (bright environment)")
       ELSE st
  ELSE st

\* autoMotor switching off as soon as the reading is below TEMP_THRESHOLD.
autoMotor_NoHysteresis(st, t) ==
  IF st.autoMotorEnabled /\ ~st.motorsManual
  THEN IF st.temperature >= TEMP_THRESHOLD /\ ~st.autoMotorTriggered
       THEN LET a == updateMotorControl([st EXCEPT !.motorOn = TRUE,
                                                   !.autoMotorTriggered = TRUE])
                b == FirebaseSet(a, "/controls/motor/on", TRUE)
            IN  sendNotification(b, t, "auto", "auto_temp",
                  "Motor automatically turned ON (high temperature)")
       ELSE IF st.temperature < TEMP_THRESHOLD
               /\ st.autoMotorTriggered
       THEN LET a == updateMotorControl([st EXCEPT !.motorOn = FALSE,
                                                   !.autoMotorTriggered = FALSE])
                b == FirebaseSet(a, "/controls/motor/on", FALSE)
            IN  sendNotification(b, t, "auto", "auto_temp_off",
                  "Motor automatically turned OFF (temperature normal)")
       ELSE st
  ELSE st

\* autoMotor switching the motor on without writing /controls/motor/on.
autoMotor_OnNotStored(st, t) ==
  IF st.autoMotorEnabled /\ ~st.motorsManual
  THEN IF st.temperature >= TEMP_THRESHOLD /\ ~st.autoMotorTriggered
       THEN LET a == updateMotorControl([st EXCEPT !.motorOn = TRUE,
                                                   !.autoMotorTriggered = TRUE])
                b == a
            IN  sendNotification(b, t, "auto", "auto_temp",
                  "Motor automatically turned ON (high temperature)")
       ELSE IF st.temperature < (TEMP_THRESHOLD - TEMP_HYSTERESIS)
               /\ st.autoMotorTriggered
       THEN LET a == updateMotorControl([st EXCEPT !.motorOn = FALSE,
                                                   !.autoMotorTriggered = FALSE])
                b == FirebaseSet(a, "/controls/motor/on", FALSE)
            IN  sendNotification(b, t, "auto", "auto_temp_off",
                  "Motor automatically turned OFF (temperature normal)")
       ELSE st
  ELSE st

\* lines 466-484: automatic motor control
autoMotor(st, t) ==
  IF st.autoMotorEnabled /\ ~st.motorsManual
  THEN IF st.temperature >= TEMP_THRESHOLD /\ ~st.autoMotorTriggered
       THEN LET a == updateMotorControl([st EXCEPT !.motorOn = TRUE,
                                                   !.autoMotorTriggered = TRUE])
                b == FirebaseSet(a, "/controls/motor/on", TRUE)
            IN  sendNotification(b, t, "auto", "auto_temp",
                  "Motor automatically turned ON (high temperature)")
       ELSE IF st.temperature < (TEMP_THRESHOLD - TEMP_HYSTERESIS)
               /\ st.autoMotorTriggered
       THEN LET a == updateMotorControl([st EXCEPT !.motorOn = FALSE,
                                                   !.autoMotorTriggered = FALSE])
                b == FirebaseSet(a, "/controls/motor/on", FALSE)
            IN  sendNotification(b, t, "auto", "auto_temp_off",
                  "Motor automatically turned OFF (temperature normal)")
       ELSE st
  ELSE st

processAutomaticControls(st, t) == autoMotor(autoLight(st, t), t)

\* Relay_sendNotification without the 2000 ms floor between motion notifications.
Relay_sendNotification_NoSpacing(st, t, type, actor, message) ==
  LET n == clock(st, t)
      a == IF usub(n, st.notificationMinuteStart) >= NOTIFICATION_MINUTE_MS
           THEN [st EXCEPT !.notificationMinuteStart = n, !.notificationCount = 0]
           ELSE st
  IN  IF a.notificationCount >= MAX_NOTIFICATIONS_PER_MIN
      THEN [a EXCEPT !.sub = Append(a.sub, Submission(type, actor, message, FALSE, n))]
      ELSE IF FALSE
      THEN [a EXCEPT !.sub = Append(a.sub, Submission(type, actor, message, FALSE, n))]
      ELSE LET b == writeNotification(a, n, type, actor, message)
           IN  [b EXCEPT !.notificationCount = b.notificationCount + 1,
                         !.lastNotificationTime = n,
                         !.sub = Append(b.sub, Submission(type, actor, message, TRUE, n))]

\* ----------------------------------------------- relay firmware handlers
Relay_sendNotification(st, t, type, actor, message) ==
  LET n == clock(st, t)
      a == IF usub(n, st.notificationMinuteStart) >= NOTIFICATION_MINUTE_MS
           THEN [st EXCEPT !.notificationMinuteStart = n, !.notificationCount = 0]
           ELSE st
  IN  IF a.notificationCount >= MAX_NOTIFICATIONS_PER_MIN
      THEN [a EXCEPT !.sub = Append(a.sub, Submission(type, actor, message, FALSE, n))]
      ELSE IF type = "motion" /\ usub(n, a.lastNotificationTime) < 2000
      THEN [a EXCEPT !.sub = Append(a.sub, Submission(type, actor, message, FALSE, n))]
      ELSE LET b == writeNotification(a, n, type, actor, message)
           IN  [b EXCEPT !.notificationCount = b.notificationCount + 1,
                         !.lastNotificationTime = n,
                         !.sub = Append(b.sub, Submission(type, actor, message, TRUE, n))]

Relay_updateFirebaseSensors(st, t) ==
  LET a == FirebaseSet(st, "/sensors/temperature", st.temperatureC)
      b == FirebaseSet(a, "/sensors/humidity", a.humidityPct)
      c == FirebaseSet(b, "/sensors/lux", b.ldrValue)
  IN  FirebaseSet(c, "/meta/last_seen", t)

updateLEDOutputs(st) ==
  digitalWrite(digitalWrite(st, "LED1_PIN", st.led1On), "LED2_PIN", st.led2On)

updateMotorOutput(st) ==
  IF st.motorOn THEN digitalWrite(st, "MOTOR_RELAY_PIN", LOW)
                ELSE digitalWrite(st, "MOTOR_RELAY_PIN", HIGH)

\* readDHT storing whichever of the two values is a number.
readDHT_KeepsValidHalf(st, tt, h) ==
  [st EXCEPT !.temperatureC = IF isnan(tt) THEN @ ELSE tt[1],
             !.humidityPct = IF isnan(h) THEN @ ELSE h[1]]

readDHT(st, tt, h) ==
  IF ~isnan(tt) /\ ~isnan(h)
  THEN [st EXCEPT !.temperatureC = tt[1], !.humidityPct = h[1]]
  ELSE st

\* readPIR accepting the raw value at once, without the stability window.
readPIR_NoWindow(st, t, raw) ==
  LET a == IF raw # st.lastRawMotion
           THEN [st EXCEPT !.lastRawMotion = raw, !.lastMotionChange = t,
                           !.pirStableState = FALSE]
           ELSE st
  IN  IF ~a.pirStableState /\ usub(t, a.lastMotionChange) >= 0
      THEN LET b == [a EXCEPT !.pirStableState = TRUE]
           IN  IF raw /\ ~b.motionDetected
               THEN LET c == FirebaseSet([b EXCEPT !.motionDetected = TRUE],
                                         "/state/motion", TRUE)
                        d == Relay_sendNotification(c, t, "motion", "PIR", "Motion detected")
                        e == digitalWrite(d, "MOTION_LED_PIN", HIGH)
                    IN  [e EXCEPT !.motionLedOffAt = uadd(t, MOTION_LED_TIMEOUT_MS)]
               ELSE IF ~raw /\ b.motionDetected
               THEN FirebaseSet([b EXCEPT !.motionDetected = FALSE],
                                "/state/motion", FALSE)
               ELSE b
      ELSE a

readPIR(st, t, raw) ==
  LET a == IF raw # st.lastRawMotion
           THEN [st EXCEPT !.lastRawMotion = raw, !.lastMotionChange = t,
                           !.pirStableState = FALSE]
           ELSE st
  IN  IF ~a.pirStableState /\ usub(t, a.lastMotionChange) >= MOTION_DEBOUNCE_MS
      THEN LET b == [a EXCEPT !.pirStableState = TRUE]
           IN  IF raw /\ ~b.motionDetected
               THEN LET c == FirebaseSet([b EXCEPT !.motionDetected = TRUE],
                                         "/state/motion", TRUE)
                        d == Relay_sendNotification(c, t, "motion", "PIR", "Motion detected")
                        e == digitalWrite(d, "MOTION_LED_PIN", HIGH)
                    IN  [e EXCEPT !.motionLedOffAt = uadd(t, MOTION_LED_TIMEOUT_MS)]
               ELSE IF ~raw /\ b.motionDetected
               THEN FirebaseSet([b EXCEPT !.motionDetected = FALSE],
                                "/state/motion", FALSE)
               ELSE b
      ELSE a

\* lines 421-426 of loop(): motion LED auto-off
Relay_motionLedTimeout(st, t) ==
  IF st.motionLedOffAt # 0 /\ t >= st.motionLedOffAt
  THEN [digitalWrite(st, "MOTION_LED_PIN", LOW) EXCEPT !.motionLedOffAt = 0]
  ELSE st

\* lines 239-256: the motor switch
Relay_motorSwitch(st, t, motorReading) ==
  LET a == IF motorReading # st.lastMotorSwitchState
           THEN [st EXCEPT !.lastMotorSwitchTime = t]
           ELSE st
      b == IF usub(t, a.lastMotorSwitchTime) > DEBOUNCE_DELAY_MS
              /\ motorReading /\ ~a.motorsManual
           THEN LET c == updateMotorOutput([a EXCEPT !.motorsManual = ~a.motorsManual,
                                                     !.motorOn = ~a.motorsManual])
                    d == FirebaseSet(c, "/controls/motor/manual", c.motorsManual)
                    e == FirebaseSet(d, "/controls/motor/on", d.motorOn)
                IN  Relay_sendNotification(e, t, "manual", "switch_motor",
                      IF e.motorsManual THEN "Motor manually turned ON"
                                        ELSE "Motor manually turned OFF")
           ELSE a
  IN  [b EXCEPT !.lastMotorSwitchState = IF motorReading THEN HIGH ELSE LOW]

\* lines 258-278: the LEDs switch
Relay_ledsSwitch(st, t, ledsReading) ==
  LET a == IF ledsReading # st.lastLedsSwitchState
           THEN [st EXCEPT !.lastLedsSwitchTime = t]
           ELSE st
      b == IF usub(t, a.lastLedsSwitchTime) > DEBOUNCE_DELAY_MS
              /\ ledsReading /\ ~a.ledsManual
           THEN LET c == updateLEDOutputs([a EXCEPT !.ledsManual = ~a.ledsManual,
                                                    !.led1On = ~a.ledsManual,
                                                    !.led2On = ~a.ledsManual])
                    d == FirebaseSet(c, "/controls/led1/manual", c.ledsManual)
                    e == FirebaseSet(d, "/controls/led1/on", d.led1On)
                    f == FirebaseSet(e, "/controls/led2/manual", e.ledsManual)
                    g == FirebaseSet(f, "/controls/led2/on", f.led2On)
                IN  Relay_sendNotification(g, t, "manual", "switch_leds",
                      IF g.ledsManual THEN "LEDs manually turned ON"
                                      ELSE "LEDs manually turned OFF")
           ELSE a
  IN  [b EXCEPT !.lastLedsSwitchState = IF ledsReading THEN HIGH ELSE LOW]

checkSwitches(st, t, motorReading, ledsReading) ==
  Relay_ledsSwitch(Relay_motorSwitch(st, t, motorReading), t, ledsReading)

\* Relay_pullMotorOn using the stored value whether or not the read succeeded.
Relay_pullMotorOn_FailureIgnored(st, t) ==
  IF st.db["/controls/motor/on"] # Absent
  THEN LET v == st.db["/controls/motor/on"][1]
       IN  IF v # st.motorOn /\ ~st.motorsManual
           THEN LET a == updateMotorOutput([st EXCEPT !.motorOn = v])
                IN  Relay_sendNotification(a, t, "manual", "dashboard_user",
                      IF a.motorOn THEN "Motor turned ON via dashboard"
                                   ELSE "Motor turned OFF via dashboard")
           ELSE st
  ELSE st

\* lines 286-296: /controls/motor/on
Relay_pullMotorOn(st, t) ==
  IF Got(st, "/controls/motor/on")
  THEN LET v == st.db["/controls/motor/on"][1]
       IN  IF v # st.motorOn /\ ~st.motorsManual
           THEN LET a == updateMotorOutput([st EXCEPT !.motorOn = v])
                IN  Relay_sendNotification(a, t, "manual", "dashboard_user",
                      IF a.motorOn THEN "Motor turned ON via dashboard"
                                   ELSE "Motor turned OFF via dashboard")
           ELSE st
  ELSE st

\* lines 298-308: /controls/led1/on
Relay_pullLed1On(st, t) ==
  IF Got(st, "/controls/led1/on")
  THEN LET v == st.db["/controls/led1/on"][1]
       IN  IF v # st.led1On /\ ~st.ledsManual
           THEN LET a == updateLEDOutputs([st EXCEPT !.led1On = v])
                IN  Relay_sendNotification(a, t, "manual", "dashboard_user",
                      IF a.led1On THEN "LED1 ON via dashboard"
                                  ELSE "LED1 OFF via dashboard")
           ELSE st
  ELSE st

\* lines 310-318: /controls/led2/on
Relay_pullLed2On(st, t) ==
  IF Got(st, "/controls/led2/on")
  THEN LET v == st.db["/controls/led2/on"][1]
       IN  IF v # st.led2On /\ ~st.ledsManual
           THEN LET a == updateLEDOutputs([st EXCEPT !.led2On = v])
                IN  Relay_sendNotification(a, t, "manual", "dashboard_user",
                      IF a.led2On THEN "LED2 ON via dashboard"
                                  ELSE "LED2 OFF via dashboard")
           ELSE st
  ELSE st

Relay_checkFirebaseControls(st, t) ==
  IF usub(t, st.lastCheck) < 1000
  THEN st
  ELSE LET a == [st EXCEPT !.lastCheck = t]
           b == Relay_pullMotorOn(a, t)
           c == Relay_pullLed1On(b, t)
           d == Relay_pullLed2On(c, t)
           e == pullAutoEnabled(d, "/controls/led1/auto_enabled", "autoLightEnabled")
       IN  pullAutoEnabled(e, "/controls/motor/auto_enabled", "autoMotorEnabled")

\* Relay_autoLight switching off as soon as the reading exceeds LDR_THRESHOLD.
Relay_autoLight_NoHysteresis(st, t) ==
  IF st.autoLightEnabled /\ ~st.ledsManual
  THEN IF st.ldrValue < LDR_THRESHOLD /\ ~(st.led1On /\ st.led2On)
       THEN LET a == updateLEDOutputs([st EXCEPT !.led1On = TRUE, !.led2On = TRUE])
                b == FirebaseSet(a, "/controls/led1/on", TRUE)
                c == FirebaseSet(b, "/controls/led2/on", TRUE)
            IN  Relay_sendNotification(c, t, "auto", "auto_light",
                  "Lights turned ON (low lux)")
       ELSE IF st.ldrValue > LDR_THRESHOLD
               /\ (st.led1On /\ st.led2On)
       THEN LET a == updateLEDOutputs([st EXCEPT !.led1On = FALSE, !.led2On = FALSE])
                b == FirebaseSet(a, "/controls/led1/on", FALSE)
                c == FirebaseSet(b, "/controls/led2/on", FALSE)
            IN  Relay_sendNotification(c, t, "auto", "auto_light_off",
                  "Lights turned OFF (bright)")
       ELSE st
  ELSE st

\* lines 330-345: automatic lighting
Relay_autoLight(st, t) ==
  IF st.autoLightEnabled /\ ~st.ledsManual
  THEN IF st.ldrValue < LDR_THRESHOLD /\ ~(st.led1On /\ st.led2On)
       THEN LET a == updateLEDOutputs([st EXCEPT !.led1On = TRUE, !.led2On = TRUE])
                b == FirebaseSet(a, "/controls/led1/on", TRUE)
                c == FirebaseSet(b, "/controls/led2/on", TRUE)
            IN  Relay_sendNotification(c, t, "auto", "auto_light",
                  "Lights turned ON (low lux)")
       ELSE IF st.ldrValue > (LDR_THRESHOLD + LDR_HYSTERESIS)
               /\ (st.led1On /\ st.led2On)
       THEN LET a == updateLEDOutputs([st EXCEPT !.led1On = FALSE, !.led2On = FALSE])
                b == FirebaseSet(a, "/controls/led1/on", FALSE)
                c == FirebaseSet(b, "/controls/led2/on", FALSE)
            IN  Relay_sendNotification(c, t, "auto", "auto_light_off",
                  "Lights turned OFF (bright)")
       ELSE st
  ELSE st

\* Relay_autoMotor acting whether auto-motor is enabled or not.
Relay_autoMotor_Ungated(st, t) ==
  IF ~st.motorsManual
  THEN IF st.temperatureC >= TEMP_THRESHOLD /\ ~st.motorOn
       THEN LET a == updateMotorOutput([st EXCEPT !.motorOn = TRUE])
                b == FirebaseSet(a, "/controls/motor/on", TRUE)
            IN  Relay_sendNotification(b, t, "auto", "auto_temp", "Motor ON (high temp)")
       ELSE IF st.temperatureC < (TEMP_THRESHOLD - TEMP_HYSTERESIS) /\ st.motorOn
       THEN LET a == updateMotorOutput([st EXCEPT !.motorOn = FALSE])
                b == FirebaseSet(a, "/controls/motor/on", FALSE)
            IN  Relay_sendNotification(b, t, "auto", "auto_temp_off",
                  "Motor OFF (temp normal)")
       ELSE st
  ELSE st

\* lines 347-360: automatic motor control
Relay_autoMotor(st, t) ==
  IF st.autoMotorEnabled /\ ~st.motorsManual
  THEN IF st.temperatureC >= TEMP_THRESHOLD /\ ~st.motorOn
       THEN LET a == updateMotorOutput([st EXCEPT !.motorOn = TRUE])
                b == FirebaseSet(a, "/controls/motor/on", TRUE)
            IN  Relay_sendNotification(b, t, "auto", "auto_temp", "Motor ON (high temp)")
       ELSE IF st.temperatureC < (TEMP_THRESHOLD - TEMP_HYSTERESIS) /\ st.motorOn
       THEN LET a == updateMotorOutput([st EXCEPT !.motorOn = FALSE])
                b == FirebaseSet(a, "/controls/motor/on", FALSE)
            IN  Relay_sendNotification(b, t, "auto", "auto_temp_off",
                  "Motor OFF (temp normal)")
       ELSE st
  ELSE st

Relay_processAutomaticControls(st, t) == Relay_autoMotor(Relay_autoLight(st, t), t)

\* ---------------------------------------------------------- environment
\* Bounds of the model: the loop iterations of a run, in the switch and
\* dashboard environments and in the sensor environments.
MaxIter == 3
MaxIterAuto == 5
MaxIterNotify == 4
MaxIterMotion == 6
MaxIterSwitch == 4
MaxIterFail == 3
MaxIterOffline == 4
MaxIterWifi == 1
MaxIterMode == 3
MaxIterMixed == 3
MaxIterCap == 5
MaxIterCadence == 4
MaxIterReturn == 5
MaxIterMirror == 4
MaxIterStale == 3
MaxIterTwin == 3
MaxIterWrap == 3
\* milliseconds left before millis() wraps when "wrap" begins
WrapLead == 5000
\* the iteration of "cap" that begins a minute after boot
CapIter == 4

ControlPaths ==
  {"/controls/motor/on", "/controls/motor/speed", "/controls/motor/direction",
   "/controls/motor/manual", "/controls/motor/auto_enabled",
   "/controls/led1/on", "/controls/led1/manual", "/controls/led1/auto_enabled",
   "/controls/led2/on", "/controls/led2/manual", "/controls/led2/auto_enabled"}

Paths ==
  ControlPaths \cup {"/state/motion", "/sensors/temperature", "/sensors/humidity",
                     "/sensors/lux", "/meta/last_seen"}

\* The environments.  Each leaves one subsystem's inputs free and holds the
\* others still:
\*   "motor"  motor switch, dashboard motor commands, temperature
\*   "leds"   LEDs switch, dashboard LED commands, light level
\*   "temp"   temperature readings around the hysteresis band
\*   "light"  light readings around the hysteresis band
\*   "notify" dashboard commands for all three actuators, one pull a second,
\*            readings inside the hysteresis bands
\*   "motion" the PIR input, sampled at short intervals
\*   "switch" both switches, sampled every 100 ms
\*   "failMotor", "failLeds", "failAuto"  dashboard commands for the motor,
\*            for the LEDs, for the auto_enabled flags, with single remote
\*            reads failing
\*   "offlineMotor", "offlineLeds"  WiFi never connects and every remote read
\*            and write fails; motor switch and temperature, LEDs switch and
\*            light level
\*   "wifi"   WiFi up or down at each test of WiFi.status()
\*   "mixed"  the PIR input together with dashboard writes of the LED 1
\*            command, the first iteration early or late in the first minute
\*   "cap"    dashboard commands for all three actuators, one pull a second,
\*            then an iteration that begins 60000 or 60001 ms after boot
\*   "cadence" loop iterations of 100 to 10000 ms, around the intervals of
\*            the periodic subsystems, with the telemetry writes failing or not
\*   "returnMotor", "returnLeds"  the motor (LEDs) switch while the
\*            temperature stays at 33.0 (the light level at 399); the
\*            dashboard writes only a path the firmware never reads
\*   "mirrorMotor", "mirrorLeds"  the motor (LEDs) switch and the temperature
\*            (light level) on both sides of the band; every remote call
\*            succeeds and the dashboard writes only a path the firmware
\*            never reads
\*   "stale"  the motor switch, readings that make both policies act, and
\*            the writes of /controls/.../on by the switch handler and by
\*            the automatic policy failing or not; every remote read
\*            succeeds and the dashboard writes only a path the firmware
\*            never reads
\*   "twin"   the relay firmware with the PWM firmware run beside it on the
\*            same readings; light levels and temperatures on both sides and
\*            on the edges of the bands, no switch press, no remote change
\*   "wrap"   a node that has been up for weeks: millis() is WrapLead ms
\*            before its wrap, every subsystem has just run; motor switch,
\*            loop iterations of 100 to 60001 ms
\*   "mode"   motor switch, dashboard writes of the manual flags and of the
\*            motor command, readings that make both policies act
FailEnvs == {"failMotor", "failLeds", "failAuto"}
OfflineEnvs == {"offlineMotor", "offlineLeds"}
ReturnEnvs == {"returnMotor", "returnLeds"}
MirrorEnvs == {"mirrorMotor", "mirrorLeds"}
Envs ==
  {"motor", "leds", "temp", "light", "notify", "motion", "switch", "wifi", "mode",
   "mixed", "cap", "cadence", "stale", "twin", "wrap"}
  \cup ReturnEnvs \cup MirrorEnvs \cup FailEnvs \cup OfflineEnvs

IterBound(e) ==
  CASE e \in {"motor", "leds"} -> MaxIter
    [] e \in {"temp", "light"} -> MaxIterAuto
    [] e = "motion" -> MaxIterMotion
    [] e = "switch" -> MaxIterSwitch
    [] e \in FailEnvs -> MaxIterFail
    [] e \in OfflineEnvs -> MaxIterOffline
    [] e = "wifi" -> MaxIterWifi
    [] e = "mode" -> MaxIterMode
    [] e = "mixed" -> MaxIterMixed
    [] e = "cap" -> MaxIterCap
    [] e = "cadence" -> MaxIterCadence
    [] e \in ReturnEnvs -> MaxIterReturn
    [] e \in MirrorEnvs -> MaxIterMirror
    [] e = "stale" -> MaxIterStale
    [] e = "twin" -> MaxIterTwin
    [] e = "wrap" -> MaxIterWrap
    [] OTHER -> MaxIterNotify

\* time a loop iteration may take, in ms; in "notify" the first iteration may
\* begin late in the first minute
Deltas(e) ==
  CASE e \in {"motor", "leds"} -> {50, 10001}
    [] e \in {"temp", "light", "wifi", "mode", "stale", "twin"}
             \cup OfflineEnvs \cup ReturnEnvs \cup MirrorEnvs -> {10001}
    [] e = "motion" -> {250, 2000}
    [] e = "switch" -> {100}
    [] e \in FailEnvs -> {1000}
    [] e = "mixed" -> IF iter = 0 THEN {2000, 59000} ELSE {1000}
    [] e = "cap" -> IF iter = CapIter THEN {56000, 56001} ELSE {1000}
    [] e = "cadence" -> {100, 200, 1000, 5000, 10000}
    [] e = "wrap" -> {100, 1000, 5001, 10001, 60001}
    [] OTHER -> IF iter = 0 THEN {1000, 58000} ELSE {1000}

PirValues(e) == IF e \in {"motion", "mixed"} THEN {LOW, HIGH} ELSE {LOW}

\* WiFi.status() == WL_CONNECTED, at each test
WifiValues(e) ==
  CASE e \in OfflineEnvs -> {FALSE}
    [] e = "wifi" -> BOOLEAN
    [] e = "wrap" -> IF iter = 0 THEN BOOLEAN ELSE {TRUE}
    [] OTHER -> {TRUE}

LuxValues(e) ==
  CASE e \in {"leds", "offlineLeds", "mirrorLeds"} -> {399, 451}
    [] e = "light" -> {350, 399, 400, 450, 451}
    [] e = "twin" -> {399, 400, 450, 451}
    [] e \in {"mode", "returnLeds", "stale"} -> {399}
    [] e \in {"notify", "cap"} \cup FailEnvs -> {420}
    [] OTHER -> {451}

\* milliseconds the store writes of one notification may take, the same
\* throughout a run
Lags(e) == IF e = "notify" THEN {0, 1} ELSE {0}

\* <<temperature, humidity>> as the DHT returns them
DhtReadings(e) ==
  CASE e \in {"motor", "offlineMotor", "mirrorMotor"} ->
         {<<Some(300), Some(50)>>, <<Some(330), Some(50)>>}
    [] e = "temp" -> {<<Some(tt), Some(50)>> : tt \in {300, 309, 310, 315, 329, 330}}
                     \cup {<<NaN, Some(50)>>, <<Some(330), NaN>>}
    [] e \in {"notify", "cap"} -> {<<Some(315), Some(50)>>}
    [] e = "twin" -> {<<Some(tt), Some(50)>> : tt \in {309, 310, 330}}
    [] e \in {"mode", "returnMotor", "stale"} -> {<<Some(330), Some(50)>>}
    [] OTHER -> {<<Some(300), Some(50)>>}

\* raw switch readings: TRUE is pressed (the pin reads LOW)
MotorSwitchValues(e) ==
  IF e \in {"motor", "switch", "offlineMotor", "mode", "returnMotor", "mirrorMotor",
            "stale", "wrap"}
  THEN BOOLEAN ELSE {FALSE}
LedsSwitchValues(e) ==
  IF e \in {"leds", "switch", "offlineLeds", "returnLeds", "mirrorLeds"}
  THEN BOOLEAN ELSE {FALSE}

\* what the dashboard may write: <<path, value>>
DashWrites(e) ==
  CASE e = "motor" ->
         {<<"/controls/motor/on", v>> : v \in BOOLEAN}
         \cup IF fw = "pwm"
              THEN {<<"/controls/motor/speed", v>> : v \in {-1, 0, 100, 101}}
                   \cup {<<"/controls/motor/direction", v>> :
                           v \in {"forward", "reverse", "left"}}
              ELSE {}
    [] e = "leds" ->
         {<<p, v>> : p \in {"/controls/led1/on", "/controls/led2/on"}, v \in BOOLEAN}
    [] e = "temp" -> {<<"/controls/motor/auto_enabled", v>> : v \in BOOLEAN}
    [] e = "failMotor" ->
         {<<"/controls/motor/on", v>> : v \in BOOLEAN}
         \cup IF fw = "pwm"
              THEN {<<"/controls/motor/speed", v>> : v \in {50, 80}}
                   \cup {<<"/controls/motor/direction", v>> :
                           v \in {"forward", "reverse"}}
              ELSE {}
    [] e = "failLeds" ->
         {<<p, v>> : p \in {"/controls/led1/on", "/controls/led2/on"}, v \in BOOLEAN}
    [] e = "failAuto" ->
         {<<p, v>> : p \in {"/controls/motor/auto_enabled",
                            "/controls/led1/auto_enabled"}, v \in BOOLEAN}
    [] e \in {"notify", "cap"} ->
         {<<p, v>> : p \in {"/controls/motor/on", "/controls/led1/on",
                            "/controls/led2/on"}, v \in BOOLEAN}
    [] e = "mixed" -> {<<"/controls/led1/on", v>> : v \in BOOLEAN}
    [] e \in ReturnEnvs \cup MirrorEnvs \cup {"stale", "twin", "wrap"} ->
         {<<"/controls/led2/auto_enabled", v>> : v \in BOOLEAN}
    [] e = "mode" ->
         {<<p, v>> : p \in {"/controls/motor/manual", "/controls/led1/manual",
                            "/controls/motor/on"}, v \in BOOLEAN}
    [] OTHER -> {<<"/controls/led1/auto_enabled", v>> : v \in BOOLEAN}

\* the sets of paths whose Firebase call may fail during one call of handler h
FailSets(e, h) ==
  IF e \in OfflineEnvs THEN {Paths \cup {"/notifications"}}
  ELSE IF e = "cadence" THEN (IF h = "telemetry" THEN {{}, Paths} ELSE {{}})
  ELSE IF e = "stale"
  THEN (IF h \in {"switches", "auto"}
        THEN {{}, {"/controls/motor/on", "/controls/led1/on", "/controls/led2/on"}}
        ELSE {{}})
  ELSE IF h # "controls" THEN {{}}
  ELSE CASE e \in {"motor", "leds"} -> {{}, Paths}
         [] e = "failMotor" ->
              {{}, Paths, {"/controls/motor/on"}, {"/controls/motor/speed"},
               {"/controls/motor/direction"}}
         [] e = "failLeds" ->
              {{}, Paths, {"/controls/led1/on"}, {"/controls/led2/on"}}
         [] e = "failAuto" ->
              {{}, Paths, {"/controls/motor/auto_enabled"},
               {"/controls/led1/auto_enabled"}}
         [] OTHER -> {{}}

\* ------------------------------------------------------- initial states
\* the notifications of the store, the clock within a loop iteration and the
\* per-step observations:
\*   notifications  the records written under /notifications, in order
\*   tick      milliseconds passed since loop() read millis() at its start
\*   tick0     the value of tick when the current handler was entered
\*   lag       milliseconds the store writes of one notification take
\*   sub       the submissions to sendNotification made during the last step
\*   bothHigh  IN1 and IN2 were HIGH together after some write of the last step
\*   dutyMax   the largest PWM duty written during the last step
\*   fail      the paths whose Firebase call fails during the step
\*   motorPressedSince, ledsPressedSince  start of the current run of
\*             'pressed' samples of each switch, -1 while released
\*   motorRunToggles, ledsRunToggles  changes of motorsManual / ledsManual
\*             during the current run of 'pressed' samples
\*   pirRaw, pirSince  the last sampled raw PIR value and the time of the first
\*             sample of the current run of equal samples (0: since boot)
\*   pirRunChanges, pirRunSubs  changes of motionDetected and motion
\*             submissions during the current run of equal samples
\*   dhtRead   <<r>> when the DHT was read during the current loop iteration
\*             and returned r = <<temperature, humidity>>, <<>> otherwise
\*   luxFell   the light level stored during the current loop iteration is
\*             below LDR_THRESHOLD and the one stored before it was not
\*   tempRose  the temperature stored during the current loop iteration is at
\*             least TEMP_THRESHOLD and the one stored before it was not
\*   attempts, start  the locals of connectWiFi (the relay firmware has no
\*             attempts counter: there it counts the delays of the call)
\*   pushFailed  for each telemetry push so far, in order, whether its
\*             writes failed
\*   real0     the milliseconds that have really passed since boot when the
\*             current loop iteration read millis(), not wrapped
\*   ranAt     for each timestamp of the firmware, the milliseconds that had
\*             really passed since boot when it was last assigned
\*   twin      in "twin", the state of the PWM firmware run beside the relay
\*             firmware: its globals, pins, store and observations
\*   wifiWait  the delay before the last test of WiFi.status() in the current
\*             call of connectWiFi, 0 before the first delay
\* the timestamps the elapsed-time tests of the two firmwares compare with
Timers ==
  {"lastSensorRead", "lastDHTRead", "lastFirebaseUpdate", "lastFirebaseControlCheck",
   "lastCheck", "notificationMinuteStart", "lastMotorSwitchTime",
   "lastLedsSwitchTime"}

Observations ==
  [notifications |-> <<>>, tick |-> 0, tick0 |-> 0, lag |-> 0,
   sub |-> <<>>, bothHigh |-> FALSE, dutyMax |-> 0, fail |-> {},
   motorPressedSince |-> -1, ledsPressedSince |-> -1,
   motorRunToggles |-> 0, ledsRunToggles |-> 0,
   pirRaw |-> LOW, pirSince |-> 0, pirRunChanges |-> 0, pirRunSubs |-> 0,
   dhtRead |-> <<>>, luxFell |-> FALSE, tempRose |-> FALSE,
   attempts |-> 0, start |-> 0, wifiWait |-> 0, pushFailed |-> <<>>,
   real0 |-> 0, ranAt |-> [f \in Timers |-> 0],
   twin |-> <<>>]

\* globals of Code_ESP32_Firebase.ino (lines 54-90), the pins after setup()
\* (lines 108-113) and the store after initializeFirebaseState (lines 218-233)
PwmGlobals ==
  [lastSensorRead |-> 0, lastDHTRead |-> 0, lastFirebaseUpdate |-> 0,
   lastNotificationTime |-> 0, notificationCount |-> 0,
   notificationMinuteStart |-> 0,
   motionDetected |-> FALSE, lastMotionState |-> FALSE, lastMotionChangeTime |-> 0,
   temperature |-> 0, humidity |-> 0, ldrValue |-> 0,
   autoLightTriggered |-> FALSE, autoMotorTriggered |-> FALSE,
   motionLedOn |-> FALSE, motionLedOffTime |-> 0,
   motorOn |-> FALSE, motorsManual |-> FALSE, led1On |-> FALSE, led2On |-> FALSE,
   ledsManual |-> FALSE, autoLightEnabled |-> TRUE, autoMotorEnabled |-> TRUE,
   motorSpeed |-> 50, motorDirection |-> "forward",
   motorSwitchPressed |-> FALSE, ledsSwitchPressed |-> FALSE,
   lastMotorSwitchTime |-> 0, lastLedsSwitchTime |-> 0,
   lastFirebaseControlCheck |-> 0,
   pin |-> [MOTOR_IN1_PIN |-> LOW, MOTOR_IN2_PIN |-> LOW, MOTOR_PWM_PIN |-> 0,
            LED1_PIN |-> LOW, LED2_PIN |-> LOW, MOTION_LED_PIN |-> LOW],
   db |-> [p \in Paths |->
            CASE p \in {"/controls/motor/on", "/controls/motor/manual",
                        "/controls/led1/on", "/controls/led1/manual",
                        "/controls/led2/on", "/controls/led2/manual"} -> Some(FALSE)
              [] p \in {"/controls/motor/auto_enabled", "/controls/led1/auto_enabled",
                        "/controls/led2/auto_enabled"} -> Some(TRUE)
              [] p = "/controls/motor/speed" -> Some(50)
              [] p = "/controls/motor/direction" -> Some("forward")
              [] p = "/meta/last_seen" -> Some(0)
              [] OTHER -> Absent]]

\* globals of the relay firmware (lines 57-90), the pins after setup()
\* (lines 379-383) and the store after initializeFirebaseState (lines 115-124)
RelayGlobals ==
  [lastSensorRead |-> 0, lastDHTRead |-> 0, lastFirebaseUpdate |-> 0,
   lastNotificationTime |-> 0, notificationMinuteStart |-> 0,
   notificationCount |-> 0,
   ldrValue |-> 0, temperatureC |-> 0, humidityPct |-> 0,
   motionDetected |-> FALSE, lastRawMotion |-> FALSE, lastMotionChange |-> 0,
   pirStableState |-> FALSE, motionLedOffAt |-> 0,
   led1On |-> FALSE, led2On |-> FALSE, ledsManual |-> FALSE,
   autoLightEnabled |-> TRUE,
   motorOn |-> FALSE, motorsManual |-> FALSE, autoMotorEnabled |-> TRUE,
   lastMotorSwitchState |-> HIGH, lastLedsSwitchState |-> HIGH,
   lastMotorSwitchTime |-> 0, lastLedsSwitchTime |-> 0,
   lastCheck |-> 0,
   pin |-> [LED1_PIN |-> LOW, LED2_PIN |-> LOW, MOTION_LED_PIN |-> LOW,
            MOTOR_RELAY_PIN |-> HIGH],
   db |-> [p \in Paths |->
            CASE p \in {"/controls/motor/on", "/controls/led1/on",
                        "/controls/led2/on"} -> Some(FALSE)
              [] p = "/meta/last_seen" -> Some(0)
              [] OTHER -> Absent]]

\* record concatenation: the fields of a and of b
Join(a, b) ==
  [f \in DOMAIN a \cup DOMAIN b |-> IF f \in DOMAIN a THEN a[f] ELSE b[f]]

InitEnv(e, variants) ==
  /\ env = e
  /\ fw \in variants
  /\ pc = "wifi"
  /\ now = 0
  /\ iter = 0
  /\ \E l \in Lags(e) :
       s = Join(IF fw = "pwm" THEN PwmGlobals ELSE RelayGlobals,
                [Observations EXCEPT !.lag = l])

\* ------------------------------------------------------------- loop()
\* a handler call starts with empty observations and its network outcome
begin(st, f) ==
  [st EXCEPT !.sub = <<>>, !.bothHigh = FALSE, !.dutyMax = 0, !.fail = f,
             !.tick0 = st.tick]

\* millis() as a handler reads it when it is entered
millis(st) == uadd(now, st.tick)

\* a step from before to after in a loop iteration that read millis() = base
\* when r0 ms had really passed: the real time of every timestamp it assigned
timed(before, after, base, r0) ==
  [after EXCEPT
     !.real0 = r0,
     !.ranAt = [f \in Timers |->
                  IF f \in DOMAIN after /\ after[f] # before[f]
                  THEN r0 + usub(after[f], base)
                  ELSE before.ranAt[f]]]

\* the current run of 'pressed' samples of a switch
runStart(since, pressed, t) ==
  IF ~pressed THEN -1 ELSE IF since = -1 THEN t ELSE since

\* changes of a manual flag during the current run of 'pressed' samples
runToggles(n, since, pressed, before, after) ==
  IF ~pressed THEN 0
  ELSE (IF since = -1 THEN 0 ELSE n) + (IF before # after THEN 1 ELSE 0)

\* wifiWaits giving up after twice the attempts and twice the time.
wifiWaits_TwiceAsLong(st, connected) ==
  IF fw = "pwm"
  THEN ~connected /\ st.attempts < 40
  ELSE ~connected /\ usub(millis(st), st.start) < 30000

\* pwm lines 198-202, relay lines 98-101: the while condition of connectWiFi
wifiWaits(st, connected) ==
  IF fw = "pwm"
  THEN ~connected /\ st.attempts < 20
  ELSE ~connected /\ usub(millis(st), st.start) < 15000

\* the delay of one pass of the loop of connectWiFi
wifiDelay == IF fw = "pwm" THEN 500 ELSE 300

\* connectWiFi is entered: WiFi.begin, attempts = 0, start = millis()
connectWiFi(st) ==
  [st EXCEPT !.attempts = 0, !.start = millis(st), !.wifiWait = 0]

\* the rest of setup() after connectWiFi: the relay firmware stamps its timers
\* (lines 398-401); the store already holds the values initializeFirebaseState
\* writes
endSetup(st, t) ==
  IF fw = "pwm" THEN st
  ELSE [st EXCEPT !.notificationMinuteStart = t, !.lastSensorRead = t,
                  !.lastDHTRead = t, !.lastFirebaseUpdate = t]

\* the order of the handler calls in loop()
NextPc(p) ==
  IF fw = "pwm"
  THEN CASE p = "loop" -> "sensors"   [] p = "sensors" -> "dht"
         [] p = "dht" -> "motionLed"  [] p = "motionLed" -> "switches"
         [] p = "switches" -> "controls" [] p = "controls" -> "telemetry"
         [] p = "telemetry" -> "auto" [] OTHER -> "loop"
  ELSE CASE p = "loop" -> "sensors"   [] p = "sensors" -> "dht"
         [] p = "dht" -> "motionLed"  [] p = "motionLed" -> "switches"
         [] p = "switches" -> "controls" [] p = "controls" -> "auto"
         [] p = "auto" -> "telemetry" [] OTHER -> "loop"

\* pwm lines 156-160, relay lines 408-413
loopSensors(st, t, motion, lux) ==
  IF fw = "pwm"
  THEN IF usub(t, st.lastSensorRead) > SENSOR_READ_INTERVAL
       THEN [readSensors(st, millis(st), motion, lux) EXCEPT !.lastSensorRead = t]
       ELSE st
  ELSE IF usub(t, st.lastSensorRead) >= SENSOR_READ_INTERVAL_MS
       THEN readPIR([st EXCEPT !.lastSensorRead = t, !.ldrValue = lux],
                    millis(st), motion)
       ELSE st

\* \
\* *
\*  
\* l
\* o
\* o
\* p
\* D
\* H
\* T
\*  
\* c
\* o
\* m
\* p
\* a
\* r
\* i
\* n
\* g
\*  
\* m
\* i
\* l
\* l
\* i
\* s
\* (
\* )
\*  
\* w
\* i
\* t
\* h
\*  
\* t
\* h
\* e
\*  
\* t
\* i
\* m
\* e
\*  
\* t
\* h
\* e
\*  
\* n
\* e
\* x
\* t
\*  
\* r
\* e
\* a
\* d
\*  
\* i
\* s
\*  
\* d
\* u
\* e
loopDHT_AbsoluteTimes(st, t, newTemp, newHum) ==
  IF fw = "pwm"
  THEN IF t > st.lastDHTRead + 10000
       THEN [readDHTSensor(st, newTemp, newHum) EXCEPT !.lastDHTRead = t]
       ELSE st
  ELSE IF t >= st.lastDHTRead + DHT_READ_INTERVAL_MS
       THEN readDHT([st EXCEPT !.lastDHTRead = t], newTemp, newHum)
       ELSE st

\* pwm lines 162-166, relay lines 415-419
loopDHT(st, t, newTemp, newHum) ==
  IF fw = "pwm"
  THEN IF usub(t, st.lastDHTRead) > 10000
       THEN [readDHTSensor(st, newTemp, newHum) EXCEPT !.lastDHTRead = t]
       ELSE st
  ELSE IF usub(t, st.lastDHTRead) >= DHT_READ_INTERVAL_MS
       THEN readDHT([st EXCEPT !.lastDHTRead = t], newTemp, newHum)
       ELSE st

\* loopTelemetry pushing after a tenth of the interval.
loopTelemetry_TenTimesAsOften(st, t) ==
  IF fw = "pwm"
  THEN IF usub(t, st.lastFirebaseUpdate) > 500
       THEN [updateFirebaseSensors(st, t) EXCEPT !.lastFirebaseUpdate = t]
       ELSE st
  ELSE IF usub(t, st.lastFirebaseUpdate) >= 500
       THEN Relay_updateFirebaseSensors([st EXCEPT !.lastFirebaseUpdate = t], t)
       ELSE st

\* pwm lines 181-185, relay lines 437-441
loopTelemetry(st, t) ==
  IF fw = "pwm"
  THEN IF usub(t, st.lastFirebaseUpdate) > 5000
       THEN [updateFirebaseSensors(st, t) EXCEPT !.lastFirebaseUpdate = t]
       ELSE st
  ELSE IF usub(t, st.lastFirebaseUpdate) >= FIREBASE_UPDATE_MS
       THEN Relay_updateFirebaseSensors([st EXCEPT !.lastFirebaseUpdate = t], t)
       ELSE st

\* one iteration of loop() of the PWM firmware (lines 142-189) that begins at
\* t, as a whole: the PIR reads motion, the LDR lux, the DHT r, the switches
\* mb and lb; WiFi is connected
Pwm_loop(st, t, motion, lux, r, mb, lb) ==
  LET a == resetNotificationCounter(
             [begin(st, {}) EXCEPT !.tick = 0, !.tick0 = 0], t)
      b == IF usub(t, a.lastSensorRead) > SENSOR_READ_INTERVAL
           THEN [readSensors(a, millis(a), motion, lux) EXCEPT !.lastSensorRead = t]
           ELSE a
      c == IF usub(t, b.lastDHTRead) > 10000
           THEN [readDHTSensor(b, r[1], r[2]) EXCEPT !.lastDHTRead = t]
           ELSE b
      d == motionLedTimeout(c, t)
      e == checkManualSwitches(d, millis(d), mb, lb)
      f == checkFirebaseControls(e, millis(e))
      g == IF usub(t, f.lastFirebaseUpdate) > 5000
           THEN [updateFirebaseSensors(f, t) EXCEPT !.lastFirebaseUpdate = t]
           ELSE f
  IN  processAutomaticControls(g, millis(g))

\* connectWiFi, one test of its while condition at a time.  Called by setup()
\* (iter = 0) in both firmwares and by loop() in the PWM firmware.
ConnectWiFi ==
  /\ pc = "wifi"
  /\ \E connected \in WifiValues(env) :
       IF wifiWaits(s, connected)
       THEN /\ s' = [s EXCEPT !.tick = @ + wifiDelay, !.attempts = @ + 1,
                              !.wifiWait = wifiDelay]
            /\ UNCHANGED <<pc, now>>
       ELSE IF iter = 0
       THEN /\ now' = millis(s)
            /\ s' = timed(s, endSetup([s EXCEPT !.tick = 0, !.tick0 = 0], now'),
                          now', s.real0 + s.tick)
            /\ pc' = "loop"
       ELSE /\ s' = s
            /\ pc' = NextPc("loop")
            /\ UNCHANGED now
  /\ UNCHANGED <<fw, env, iter>>

\* a loop iteration starts: millis() is read and, in the PWM firmware, the
\* WiFi status is tested (pwm lines 143-154, relay line 406)
LoopStart ==
  /\ pc = "loop"
  /\ iter < IterBound(env)
  /\ \E d \in Deltas(env), connected \in WifiValues(env) :
       LET s0 == [begin(s, {}) EXCEPT !.tick = 0, !.tick0 = 0, !.dhtRead = <<>>,
                                      !.luxFell = FALSE, !.tempRose = FALSE]
           s1 == IF fw = "pwm" THEN resetNotificationCounter(s0, now') ELSE s0
       IN  /\ now' = uadd(millis(s), d)
           /\ IF fw = "pwm" /\ ~connected
              THEN s' = timed(s, connectWiFi(s1), now', s.real0 + s.tick + d)
                   /\ pc' = "wifi"
              ELSE s' = timed(s, s1, now', s.real0 + s.tick + d)
                   /\ pc' = NextPc(pc)
  /\ iter' = iter + 1
  /\ UNCHANGED <<fw, env>>

\* the stored temperature
storedTemp(st) == IF fw = "pwm" THEN st.temperature ELSE st.temperatureC

\* the run of equal PIR samples, observed when the PIR has been sampled
pirRun(before, after, motion) ==
  IF after.lastSensorRead = before.lastSensorRead
  THEN after
  ELSE LET new == motion # before.pirRaw
           changed == IF after.motionDetected # before.motionDetected THEN 1 ELSE 0
           subs == Len(SelectSeq(after.sub, LAMBDA x : x.type = "motion"))
       IN  [after EXCEPT
              !.pirRaw = motion,
              !.pirSince = IF new THEN now ELSE before.pirSince,
              !.pirRunChanges = (IF new THEN 0 ELSE before.pirRunChanges) + changed,
              !.pirRunSubs = (IF new THEN 0 ELSE before.pirRunSubs) + subs]

Sensors ==
  /\ pc = "sensors"
  /\ \E motion \in PirValues(env), lux \in LuxValues(env), f \in FailSets(env, pc) :
       LET s1 == pirRun(s, loopSensors(begin(s, f), now, motion, lux), motion)
       IN  s' = timed(s, IF s1.lastSensorRead # s.lastSensorRead
                         THEN [s1 EXCEPT !.luxFell = s.ldrValue >= LDR_THRESHOLD
                                                      /\ lux < LDR_THRESHOLD]
                         ELSE s1,
                      now, s.real0)
  /\ pc' = NextPc(pc)
  /\ UNCHANGED <<fw, env, now, iter>>

DHT ==
  /\ pc = "dht"
  /\ \E r \in DhtReadings(env) :
       LET s1 == loopDHT(begin(s, {}), now, r[1], r[2])
       IN  s' = timed(s, IF s1.lastDHTRead # s.lastDHTRead
                         THEN [s1 EXCEPT !.dhtRead = <<r>>,
                                         !.tempRose = storedTemp(s) < TEMP_THRESHOLD
                                                       /\ storedTemp(s1) >= TEMP_THRESHOLD]
                         ELSE s1,
                      now, s.real0)
  /\ pc' = NextPc(pc)
  /\ UNCHANGED <<fw, env, now, iter>>

MotionLed ==
  /\ pc = "motionLed"
  /\ s' = IF fw = "pwm" THEN motionLedTimeout(begin(s, {}), now)
                        ELSE Relay_motionLedTimeout(begin(s, {}), now)
  /\ pc' = NextPc(pc)
  /\ UNCHANGED <<fw, env, now, iter>>

Switches ==
  /\ pc = "switches"
  /\ \E mb \in MotorSwitchValues(env), lb \in LedsSwitchValues(env), f \in FailSets(env, pc) :
       LET s0 == begin(s, f)
           s1 == IF fw = "pwm" THEN checkManualSwitches(s0, millis(s0), mb, lb)
                               ELSE checkSwitches(s0, millis(s0), mb, lb)
       IN  s' = timed(s, [s1 EXCEPT
                   !.motorPressedSince = runStart(s.motorPressedSince, mb, now),
                   !.ledsPressedSince = runStart(s.ledsPressedSince, lb, now),
                   !.motorRunToggles =
                      runToggles(s.motorRunToggles, s.motorPressedSince, mb,
                                 s.motorsManual, s1.motorsManual),
                   !.ledsRunToggles =
                      runToggles(s.ledsRunToggles, s.ledsPressedSince, lb,
                                 s.ledsManual, s1.ledsManual)],
                      now, s.real0)
  /\ pc' = NextPc(pc)
  /\ UNCHANGED <<fw, env, now, iter>>

\* the web dashboard writes a control path of the store
Dashboard ==
  /\ pc = "controls"
  /\ \E w \in DashWrites(env) :
       /\ s.db[w[1]] # Some(w[2])
       /\ s' = [s EXCEPT !.db[w[1]] = Some(w[2])]
  /\ UNCHANGED <<fw, env, pc, now, iter>>

Controls ==
  /\ pc = "controls"
  /\ \E f \in FailSets(env, pc) :
       s' = timed(s, IF fw = "pwm"
                     THEN checkFirebaseControls(begin(s, f), millis(s))
                     ELSE Relay_checkFirebaseControls(begin(s, f), millis(s)),
                  now, s.real0)
  /\ pc' = NextPc(pc)
  /\ UNCHANGED <<fw, env, now, iter>>

Telemetry ==
  /\ pc = "telemetry"
  /\ \E f \in FailSets(env, pc) :
       LET s1 == loopTelemetry(begin(s, f), now)
           s2 == IF s1.lastFirebaseUpdate # s.lastFirebaseUpdate
                 THEN [s1 EXCEPT !.pushFailed = Append(@, f # {})]
                 ELSE s1
       IN  s' = timed(s, IF env = "twin"
                         THEN [s2 EXCEPT !.twin =
                                 Pwm_loop(@, now, s.pirRaw, s.ldrValue,
                                          IF s.dhtRead # <<>> THEN s.dhtRead[1]
                                                              ELSE <<NaN, NaN>>,
                                          FALSE, FALSE)]
                         ELSE s2,
                      now, s.real0)
  /\ pc' = NextPc(pc)
  /\ UNCHANGED <<fw, env, now, iter>>

Auto ==
  /\ pc = "auto"
  /\ \E f \in FailSets(env, pc) :
       s' = timed(s, IF fw = "pwm"
                     THEN processAutomaticControls(begin(s, f), millis(s))
                     ELSE Relay_processAutomaticControls(begin(s, f), millis(s)),
                  now, s.real0)
  /\ pc' = NextPc(pc)
  /\ UNCHANGED <<fw, env, now, iter>>

Next ==
  \/ ConnectWiFi
  \/ LoopStart \/ Sensors \/ DHT \/ MotionLed \/ Switches
  \/ Dashboard \/ Controls \/ Telemetry \/ Auto

\* manual switches and dashboard commands, both firmwares
Init == \E e \in {"motor", "leds"} : InitEnv(e, {"pwm", "relay"})
Spec == Init /\ [][Next]_vars

\* sensor readings around the hysteresis bands, both firmwares
InitAuto == \E e \in {"temp", "light"} : InitEnv(e, {"pwm", "relay"})
SpecAuto == InitAuto /\ [][Next]_vars

\* bursts of dashboard commands and the notifications they cause, both firmwares
InitNotify == InitEnv("notify", {"pwm", "relay"})
SpecNotify == InitNotify /\ [][Next]_vars

\* presses, releases and holds of both switches, both firmwares
InitSwitch == InitEnv("switch", {"pwm", "relay"})
SpecSwitch == InitSwitch /\ [][Next]_vars

\* dashboard commands with failing remote reads, both firmwares
InitFail == \E e \in FailEnvs : InitEnv(e, {"pwm", "relay"})
SpecFail == InitFail /\ [][Next]_vars

\* the motion sensor, both firmwares
InitMotion == InitEnv("motion", {"pwm", "relay"})
SpecMotion == InitMotion /\ [][Next]_vars

\* motion events between dashboard notifications, both firmwares
InitMixed == InitEnv("mixed", {"pwm", "relay"})
SpecMixed == InitMixed /\ [][Next]_vars

\* suppressed notifications, by the cap and by the spacing, both firmwares
InitDrop == \E e \in {"notify", "mixed"} : InitEnv(e, {"pwm", "relay"})
SpecDrop == InitDrop /\ [][Next]_vars

\* the cap reached in the first seconds, then a command a minute after boot
InitCap == InitEnv("cap", {"pwm", "relay"})
SpecCap == InitCap /\ [][Next]_vars

\* loop iterations shorter and longer than the polling intervals
InitCadence == InitEnv("cadence", {"pwm", "relay"})
SpecCadence == InitCadence /\ [][Next]_vars

\* a switch taking its actuator to Manual and back while the automatic
\* policy keeps asking for it, PWM firmware
InitReturn == \E e \in ReturnEnvs : InitEnv(e, {"pwm"})
SpecReturn == InitReturn /\ [][Next]_vars

\* every remote call succeeds and only the firmware writes the paths it
\* reads, PWM firmware
InitMirror == \E e \in MirrorEnvs : InitEnv(e, {"pwm"})
SpecMirror == InitMirror /\ [][Next]_vars

\* best-effort writes of the on/off state failing, PWM firmware
InitStale == InitEnv("stale", {"pwm"})
SpecStale == InitStale /\ [][Next]_vars

\* the auto_enabled flags written by the dashboard, read with and without
\* failures, while the readings cross the bands, both firmwares
InitGate == \E e \in {"temp", "light", "failAuto"} : InitEnv(e, {"pwm", "relay"})
SpecGate == InitGate /\ [][Next]_vars

\* the relay firmware and, beside it, the PWM firmware on the same readings:
\* at the end of each iteration of the relay firmware the PWM firmware runs
\* one iteration of its loop with the readings of that iteration
\* weeks after boot, WrapLead ms before millis() wraps: an iteration has just
\* run every subsystem, the switches are released, and in the relay firmware
\* a notification has just opened the rate-limit window (part_000 lines
\* 132-135, 158-159)
InitWrap ==
  /\ env = "wrap"
  /\ fw \in {"pwm", "relay"}
  /\ pc = "loop"
  /\ now = ClockMod - WrapLead
  /\ iter = 0
  /\ LET g == Join(IF fw = "pwm" THEN PwmGlobals ELSE RelayGlobals, Observations)
     IN  s = [f \in DOMAIN g |->
                CASE f \in Timers \cup {"real0"} -> now
                  [] f = "ranAt" -> [x \in Timers |-> now]
                  [] f = "lastNotificationTime" /\ fw = "relay" -> now
                  [] f = "notificationCount" /\ fw = "relay" -> 1
                  [] OTHER -> g[f]]
SpecWrap == InitWrap /\ [][Next]_vars

InitTwin ==
  /\ env = "twin" /\ fw = "relay" /\ pc = "wifi" /\ now = 0 /\ iter = 0
  /\ s = [Join(RelayGlobals, Observations) EXCEPT
            !.twin = Join(PwmGlobals, Observations)]
SpecTwin == InitTwin /\ [][Next]_vars

\* the mode flags against remote writes of them, both firmwares
InitMode == InitEnv("mode", {"pwm", "relay"})
SpecMode == InitMode /\ [][Next]_vars

\* no network from boot onward, both firmwares
InitOffline == \E e \in OfflineEnvs : InitEnv(e, {"pwm", "relay"})
SpecOffline == InitOffline /\ [][Next]_vars

\* WiFi coming and going, both firmwares
InitWifi == InitEnv("wifi", {"pwm", "relay"})
SpecWifi == InitWifi /\ [][Next]_vars

\* the processor keeps executing the loop of connectWiFi while it is in it:
\* WiFi coming and going, no network at all, failing remote reads
InitLive ==
  \E e \in {"wifi"} \cup OfflineEnvs \cup FailEnvs : InitEnv(e, {"pwm", "relay"})
SpecLive == InitLive /\ [][Next]_vars /\ WF_vars(ConnectWiFi)

\* ---------------------------------------------------------------- claims
\* the time of the last remote pull
lastPull(st) == IF fw = "pwm" THEN st.lastFirebaseControlCheck ELSE st.lastCheck

\* C1: manual priority.  While an actuator group is in Manual mode (from the
\* accepted press that set it until the next accepted press of that switch),
\* a remote pull does not change its on/off state (motorOn, led1On, led2On),
\* whatever the store holds.  (The PWM firmware still applies a remote speed
\* or direction to a motor in Manual mode; the claim is about on/off.)
C1_ManualPriority ==
  [][(pc = "controls" /\ pc' # "controls") =>
       /\ s.motorsManual =>
            /\ s'.motorOn = s.motorOn
            /\ s'.motorsManual
            /\ fw = "relay" => s'.pin.MOTOR_RELAY_PIN = s.pin.MOTOR_RELAY_PIN
       /\ s.ledsManual =>
            /\ s'.led1On = s.led1On /\ s'.led2On = s.led2On
            /\ s'.ledsManual
            /\ s'.pin.LED1_PIN = s.pin.LED1_PIN
            /\ s'.pin.LED2_PIN = s.pin.LED2_PIN]_vars

\* C1 witness: a pull has just read "off" for the motor while the switch holds
\* it on in Manual mode.
C1_Witness ==
  /\ fw = "pwm" /\ pc = "telemetry"
  /\ lastPull(s) = now /\ s.fail = {}
  /\ s.motorsManual /\ s.motorOn
  /\ s.db["/controls/motor/on"] = Some(FALSE)

\* C2: while ledsManual (resp. motorsManual) is true, processAutomaticControls
\* changes neither the on/off state of the LEDs (resp. the motor) nor the
\* hysteresis trigger state, for every reading.
C2_AutoSuspendedInManual ==
  [][pc = "auto" =>
       /\ s.ledsManual =>
            /\ s'.led1On = s.led1On /\ s'.led2On = s.led2On
            /\ s'.ledsManual
            /\ fw = "pwm" => s'.autoLightTriggered = s.autoLightTriggered
       /\ s.motorsManual =>
            /\ s'.motorOn = s.motorOn
            /\ s'.motorsManual
            /\ fw = "pwm" => s'.autoMotorTriggered = s.autoMotorTriggered]_vars

\* C2 witness: the press that entered Manual mode was accepted in this very
\* iteration, the light policy had triggered before and the reading is bright
\* enough for it to switch the LEDs off, and they are still on after it ran.
C2_Witness ==
  /\ fw = "pwm" /\ pc = "loop" /\ iter > 0
  /\ s.ledsManual /\ s.lastLedsSwitchTime = now
  /\ s.autoLightEnabled /\ s.autoLightTriggered
  /\ s.ldrValue > LDR_THRESHOLD + 50
  /\ s.led1On /\ s.led2On

\* C3: in the PWM firmware the manual flag of a switch changes at most once
\* per contiguous run of 'pressed' samples, and only when that run has lasted
\* at least DEBOUNCE_DELAY; it never changes on a shorter run.
C3_StableRunDebounce ==
  [][(fw = "pwm" /\ pc = "switches") =>
       /\ s'.motorRunToggles <= 1
       /\ s'.ledsRunToggles <= 1
       /\ s'.motorsManual # s.motorsManual =>
            /\ s'.motorPressedSince # -1
            /\ usub(now, s'.motorPressedSince) >= DEBOUNCE_DELAY
       /\ s'.ledsManual # s.ledsManual =>
            /\ s'.ledsPressedSince # -1
            /\ usub(now, s'.ledsPressedSince) >= DEBOUNCE_DELAY]_vars

\* the submissions of the last step made by the light policy / the motor policy
lightSubs(st) ==
  SelectSeq(st.sub, LAMBDA x : x.actor \in {"auto_light", "auto_light_off"})
motorSubs(st) ==
  SelectSeq(st.sub, LAMBDA x : x.actor \in {"auto_temp", "auto_temp_off"})

\* C4: light hysteresis of the PWM firmware, LED group in Auto mode with
\* auto-lighting enabled.  Untriggered with the LEDs off, lux = 399 gives one
\* automatic ON transition; once triggered, no reading in [350,450] gives a
\* transition; triggered, lux = 451 gives one automatic OFF transition, and
\* untriggered readings of 400 and more give none.
C4_LightHysteresis ==
  [][(fw = "pwm" /\ pc = "auto" /\ s.autoLightEnabled /\ ~s.ledsManual) =>
       /\ (~s.autoLightTriggered /\ ~s.led1On /\ ~s.led2On /\ s.ldrValue = 399) =>
            /\ s'.led1On /\ s'.led2On /\ s'.autoLightTriggered
            /\ s'.pin.LED1_PIN = HIGH /\ s'.pin.LED2_PIN = HIGH
            /\ Len(lightSubs(s')) = 1 /\ lightSubs(s')[1].actor = "auto_light"
       /\ (s.autoLightTriggered /\ s.ldrValue \in 350..450) =>
            /\ s'.led1On = s.led1On /\ s'.led2On = s.led2On
            /\ s'.autoLightTriggered
            /\ lightSubs(s') = <<>>
       /\ (s.autoLightTriggered /\ s.ldrValue = 451) =>
            /\ ~s'.led1On /\ ~s'.led2On /\ ~s'.autoLightTriggered
            /\ s'.pin.LED1_PIN = LOW /\ s'.pin.LED2_PIN = LOW
            /\ Len(lightSubs(s')) = 1 /\ lightSubs(s')[1].actor = "auto_light_off"
       /\ (~s.autoLightTriggered /\ s.ldrValue >= 400) =>
            /\ s'.led1On = s.led1On /\ s'.led2On = s.led2On
            /\ ~s'.autoLightTriggered
            /\ lightSubs(s') = <<>>]_vars

\* C4 witness: the automatic OFF transition at lux = 451, which follows an
\* earlier automatic ON.
C4_Witness ==
  /\ fw = "pwm" /\ env = "light" /\ pc = "loop" /\ iter > 0
  /\ s.ldrValue = 451 /\ ~s.led1On /\ ~s.led2On /\ ~s.autoLightTriggered
  /\ Len(lightSubs(s)) = 1 /\ lightSubs(s)[1].actor = "auto_light_off"

C7_MotorClamp ==
  fw = "pwm" =>
    /\ s.motorSpeed \in 0..100
    /\ s.pin.MOTOR_PWM_PIN \in 0..MAX_MOTOR_PWM
    /\ s.dutyMax <= MAX_MOTOR_PWM
    /\ (s.motorOn /\ s.motorSpeed = 100) => s.pin.MOTOR_PWM_PIN = MAX_MOTOR_PWM

\* C7 witness: the motor runs at speed 100 with duty 204 and a remote speed
\* of 101 has just been pulled and left the speed alone.
C7_Witness ==
  /\ fw = "pwm" /\ pc = "telemetry"
  /\ lastPull(s) = now /\ s.fail = {}
  /\ s.db["/controls/motor/speed"] = Some(101)
  /\ s.motorOn /\ s.motorSpeed = 100
  /\ s.pin.MOTOR_PWM_PIN = MAX_MOTOR_PWM

\* C8 as stated: in the PWM firmware a motorSpeed of 0 gives duty 0 and both
\* direction lines LOW, whether or not motorOn is true.
C8_SpeedZeroStopsMotor ==
  (fw = "pwm" /\ s.motorSpeed = 0) =>
    /\ s.pin.MOTOR_PWM_PIN = 0
    /\ s.pin.MOTOR_IN1_PIN = LOW
    /\ s.pin.MOTOR_IN2_PIN = LOW

\* C8 amended: a motorSpeed of 0 gives duty 0 whether or not motorOn is true;
\* both direction lines are LOW only while motorOn is false, and while
\* motorOn is true the line of motorDirection is HIGH.
C8_SpeedZeroDutyZero ==
  (fw = "pwm" /\ s.motorSpeed = 0) =>
    /\ s.pin.MOTOR_PWM_PIN = 0
    /\ ~s.motorOn => (s.pin.MOTOR_IN1_PIN = LOW /\ s.pin.MOTOR_IN2_PIN = LOW)
    /\ s.motorOn =>
         /\ s.pin.MOTOR_IN1_PIN = (s.motorDirection = "forward")
         /\ s.pin.MOTOR_IN2_PIN = (s.motorDirection # "forward")

\* C8 witness: the motor is on at speed 0: duty 0 and a direction line HIGH.
C8_Witness ==
  /\ fw = "pwm" /\ s.motorOn /\ s.motorSpeed = 0
  /\ s.pin.MOTOR_PWM_PIN = 0
  /\ s.pin.MOTOR_IN1_PIN = HIGH

\* C9: in the PWM firmware the two direction lines are never HIGH together,
\* neither after a handler nor between two writes of one handler.
C9_NeverBothHigh ==
  fw = "pwm" =>
    /\ ~s.bothHigh
    /\ ~(s.pin.MOTOR_IN1_PIN = HIGH /\ s.pin.MOTOR_IN2_PIN = HIGH)

\* C10: at the end of every loop iteration the outputs follow the logical
\* state.  PWM: motor off gives both direction lines LOW and duty 0, motor on
\* gives exactly the line of motorDirection HIGH and duty
\* (motorSpeed * 204) \div 100; relay: the motor relay is energised (LOW)
\* exactly when motorOn; both: each LED pin equals its logical LED state.
C10_OutputsFollowState ==
  (pc = "loop" /\ iter > 0) =>
    /\ s.pin.LED1_PIN = s.led1On
    /\ s.pin.LED2_PIN = s.led2On
    /\ IF fw = "pwm"
       THEN IF s.motorOn
            THEN /\ s.pin.MOTOR_IN1_PIN = (s.motorDirection = "forward")
                 /\ s.pin.MOTOR_IN2_PIN = (s.motorDirection = "reverse")
                 /\ s.pin.MOTOR_PWM_PIN = (s.motorSpeed * MAX_MOTOR_PWM) \div 100
            ELSE /\ s.pin.MOTOR_IN1_PIN = LOW
                 /\ s.pin.MOTOR_IN2_PIN = LOW
                 /\ s.pin.MOTOR_PWM_PIN = 0
       ELSE (s.pin.MOTOR_RELAY_PIN = LOW) <=> s.motorOn

\* C10 witness: an iteration ends with the motor running in reverse at speed
\* 100 after the remote direction was applied.
C10_Witness ==
  /\ fw = "pwm" /\ pc = "loop" /\ iter > 0
  /\ s.motorOn /\ s.motorDirection = "reverse" /\ s.motorSpeed = 100
  /\ s.pin.MOTOR_IN1_PIN = LOW /\ s.pin.MOTOR_IN2_PIN = HIGH
  /\ s.pin.MOTOR_PWM_PIN = MAX_MOTOR_PWM

\* the notifications written to the store during the counting window that
\* began at w
windowWrites(st, w) ==
  Cardinality({i \in DOMAIN st.notifications : st.notifications[i].window = w})

\* C11: the rate-limit cap, in both firmwares.  notificationCount never
\* exceeds 10; at most 10 notifications are written during one counting
\* window; and a submission that passes the spacing rule is dropped only when
\* 10 notifications have been written in the current window, so of 11 such
\* submissions in one window the first 10 are written and the 11th is dropped.
C11_RateLimitCap ==
  /\ s.notificationCount <= 10
  /\ \A i \in DOMAIN s.notifications :
       windowWrites(s, s.notifications[i].window) <= 10
  /\ \A k \in DOMAIN s.sub :
       (s.sub[k].type # "motion" /\ ~s.sub[k].emitted) =>
          windowWrites(s, s.notificationMinuteStart) = 10
  /\ windowWrites(s, s.notificationMinuteStart) < 10 =>
       \A k \in DOMAIN s.sub : s.sub[k].type # "motion" => s.sub[k].emitted

\* C11 witness: ten notifications were written in the current window and the
\* eleventh submission of the window has just been dropped.
C11_Witness ==
  /\ windowWrites(s, s.notificationMinuteStart) = 10
  /\ s.notificationCount = 10
  /\ s.sub # <<>> /\ ~s.sub[Len(s.sub)].emitted
  /\ s.sub[Len(s.sub)].type # "motion"

\* C12: in the PWM firmware no more than 10 notifications are written within
\* any period of 60 000 ms, wherever the period begins: any eleven successive
\* notifications are spread over 60 000 ms or more.
C12_TenPerAnyMinute ==
  fw = "pwm" =>
    \A i \in DOMAIN s.notifications :
      (i + 10) \in DOMAIN s.notifications =>
         usub(s.notifications[i + 10].key, s.notifications[i].key) >= 60000

\* C13: the motion spacing floor, in both firmwares.  A motion event
\* submitted less than 2000 ms after a motion notification was written is
\* suppressed, however far notificationCount is below the cap.
C13_MotionSpacing ==
  \A k \in DOMAIN s.sub :
    s.sub[k].type = "motion" =>
      \A i \in DOMAIN s.notifications :
        (/\ s.notifications[i].type = "motion"
         /\ usub(s.sub[k].key, s.notifications[i].key) > 0
         /\ usub(s.sub[k].key, s.notifications[i].key) < 2000)
        => ~s.sub[k].emitted

\* C13 witness: a motion event submitted 500 ms after a written motion
\* notification is suppressed while the counter is at 1.
C13_Witness ==
  /\ s.notificationCount = 1
  /\ Len(s.notifications) = 1 /\ s.notifications[1].type = "motion"
  /\ Len(s.sub) = 1 /\ s.sub[1].type = "motion" /\ ~s.sub[1].emitted
  /\ usub(s.sub[1].key, s.notifications[1].key) = 500

\* C14: every notification is written under a key /notifications/{timestamp}
\* that differs from the key of every notification written before it, so no
\* notification is overwritten by a later one, also when two are written in
\* the same loop iteration.
C14_WriteOnceKeys ==
  \A i, j \in DOMAIN s.notifications :
    i < j => s.notifications[i].key # s.notifications[j].key

\* a press of a PWM-firmware switch is accepted when its pressed flag is set
motorPressAccepted == ~s.motorSwitchPressed /\ s'.motorSwitchPressed
ledsPressAccepted == ~s.ledsSwitchPressed /\ s'.ledsSwitchPressed

\* C15: in the PWM firmware every accepted press of the motor switch (of the
\* LEDs switch) flips motorsManual (ledsManual) and nothing else changes it, so
\* the mode alternates over successive accepted presses and two of them
\* return the actuator to Auto mode.
C15_PressFlipsMode ==
  [][fw = "pwm" =>
       /\ s'.motorsManual = (IF motorPressAccepted THEN ~s.motorsManual
                                                   ELSE s.motorsManual)
       /\ s'.ledsManual = (IF ledsPressAccepted THEN ~s.ledsManual
                                                 ELSE s.ledsManual)]_vars

\* C15 witness: the second accepted press of the motor switch has just
\* returned the motor to Auto mode.
C15_Witness ==
  /\ fw = "pwm" /\ pc = "controls"
  /\ s.motorSwitchPressed /\ s.lastMotorSwitchTime = now
  /\ ~s.motorsManual
  /\ s.sub # <<>> /\ s.sub[1].message = "Motor manually turned OFF"
  /\ Len(SelectSeq(s.notifications, LAMBDA n : n.actor = "switch_motor")) = 2

\* C17: in the PWM firmware a press that takes an actuator from Auto into
\* Manual sets its on/off state to the negation of the state it had just
\* before the press.
C17_EnterManualToggles ==
  [][(fw = "pwm" /\ pc = "switches") =>
       /\ (~s.motorsManual /\ s'.motorsManual) => s'.motorOn = ~s.motorOn
       /\ (~s.ledsManual /\ s'.ledsManual) =>
            (s'.led1On = ~s.led1On /\ s'.led2On = ~s.led2On)]_vars

\* C16: in the relay firmware, once a switch has put its actuator into
\* Manual mode, a later press of that switch, begun after a release and held
\* for longer than DEBOUNCE_DELAY_MS, returns the actuator to Auto mode.
C16_RelayPressReturnsToAuto ==
  [][(fw = "relay" /\ pc = "switches") =>
       /\ (/\ s.motorsManual
           /\ s.motorPressedSince # -1 /\ s.motorRunToggles = 0
           /\ s'.motorPressedSince = s.motorPressedSince
           /\ usub(now, s.motorPressedSince) > DEBOUNCE_DELAY_MS)
          => ~s'.motorsManual
       /\ (/\ s.ledsManual
           /\ s.ledsPressedSince # -1 /\ s.ledsRunToggles = 0
           /\ s'.ledsPressedSince = s.ledsPressedSince
           /\ usub(now, s.ledsPressedSince) > DEBOUNCE_DELAY_MS)
          => ~s'.ledsManual]_vars

\* C18: in the relay firmware motionDetected changes only in readPIR and
\* only when the sampled raw PIR value has been the same for at least
\* MOTION_DEBOUNCE_MS; a change of the raw value starts the count again; and
\* a run of equal raw samples causes at most one change of motionDetected and
\* at most one motion submission.
C18_RelayPirDebounce ==
  [][fw = "relay" =>
       IF pc = "sensors"
       THEN /\ s'.motionDetected # s.motionDetected =>
                 usub(now, s'.pirSince) >= MOTION_DEBOUNCE_MS
            /\ s'.sub # <<>> => usub(now, s'.pirSince) >= MOTION_DEBOUNCE_MS
            /\ s'.pirRunChanges <= 1
            /\ s'.pirRunSubs <= 1
       ELSE s'.motionDetected = s.motionDetected]_vars

\* C18 witness: the raw value has been HIGH for two samples 250 ms apart and
\* motionDetected has just become true, with one motion submission.
C18_Witness ==
  /\ fw = "relay" /\ pc = "dht"
  /\ s.pirRaw = HIGH /\ usub(now, s.pirSince) = 250
  /\ s.motionDetected /\ s.pirRunChanges = 1 /\ s.pirRunSubs = 1
  /\ Len(s.sub) = 1 /\ s.sub[1].type = "motion"

\* C19: in the PWM firmware motionDetected becomes true, and a motion
\* notification is submitted, only after the raw PIR signal has read HIGH for
\* at least PIR_DEBOUNCE_MS, never on a single HIGH sample.
C19_PwmPirDebounce ==
  [][(fw = "pwm" /\ pc = "sensors") =>
       /\ (~s.motionDetected /\ s'.motionDetected) =>
            (s'.pirRaw = HIGH /\ usub(now, s'.pirSince) >= PIR_DEBOUNCE_MS)
       /\ s'.sub # <<>> =>
            (s'.pirRaw = HIGH /\ usub(now, s'.pirSince) >= PIR_DEBOUNCE_MS)]_vars

\* the submissions of the last step whose message is one of the given messages
subsAbout(st, messages) == SelectSeq(st.sub, LAMBDA x : x.message \in messages)

\* C20: read failures are 'no change', in both firmwares.  When a remote read
\* of checkFirebaseControls fails, the local variable it would have updated
\* keeps its value, the outputs of that actuator are not changed because of
\* it, and no notification is submitted for it.  (s'.fail holds the reads
\* that failed during the step.)
C20_ReadFailureNoChange ==
  [][pc = "controls" /\ pc' # "controls" =>
       /\ "/controls/motor/on" \in s'.fail =>
            /\ s'.motorOn = s.motorOn
            /\ fw = "relay" => s'.pin.MOTOR_RELAY_PIN = s.pin.MOTOR_RELAY_PIN
            /\ subsAbout(s', {"Motor turned ON via dashboard",
                              "Motor turned OFF via dashboard"}) = <<>>
       /\ (fw = "pwm" /\ "/controls/motor/speed" \in s'.fail) =>
            s'.motorSpeed = s.motorSpeed
       /\ (fw = "pwm" /\ "/controls/motor/direction" \in s'.fail) =>
            s'.motorDirection = s.motorDirection
       /\ (fw = "pwm" /\ {"/controls/motor/on", "/controls/motor/speed",
                          "/controls/motor/direction"} \subseteq s'.fail) =>
            /\ s'.pin.MOTOR_IN1_PIN = s.pin.MOTOR_IN1_PIN
            /\ s'.pin.MOTOR_IN2_PIN = s.pin.MOTOR_IN2_PIN
            /\ s'.pin.MOTOR_PWM_PIN = s.pin.MOTOR_PWM_PIN
       /\ "/controls/led1/on" \in s'.fail =>
            /\ s'.led1On = s.led1On
            /\ s'.pin.LED1_PIN = s.pin.LED1_PIN
            /\ subsAbout(s', {"LED1 turned ON via dashboard", "LED1 ON via dashboard",
                              "LED1 turned OFF via dashboard", "LED1 OFF via dashboard"}) = <<>>
       /\ "/controls/led2/on" \in s'.fail =>
            /\ s'.led2On = s.led2On
            /\ s'.pin.LED2_PIN = s.pin.LED2_PIN
            /\ subsAbout(s', {"LED2 turned ON via dashboard", "LED2 ON via dashboard",
                              "LED2 turned OFF via dashboard", "LED2 OFF via dashboard"}) = <<>>
       /\ "/controls/led1/auto_enabled" \in s'.fail =>
            s'.autoLightEnabled = s.autoLightEnabled
       /\ "/controls/motor/auto_enabled" \in s'.fail =>
            s'.autoMotorEnabled = s.autoMotorEnabled
       /\ Paths \subseteq s'.fail =>
            (s'.pin = s.pin /\ s'.sub = <<>> /\ s'.db = s.db)]_vars

\* C20 witness: a pull in which only the read of /controls/motor/on failed:
\* the store says on, the motor stays off, and the speed read in the same
\* pull was applied.
C20_Witness ==
  /\ fw = "pwm" /\ pc = "telemetry"
  /\ lastPull(s) = now
  /\ s.fail = {"/controls/motor/on"}
  /\ s.db["/controls/motor/on"] = Some(TRUE) /\ ~s.motorOn
  /\ s.db["/controls/motor/speed"] = Some(80) /\ s.motorSpeed = 80

\* a pull has nothing to apply from a path: the read fails, or the value is
\* not a valid one, or it equals the local value
nothingToApply(st, path, valid, local) ==
  ~Got(st, path) \/ st.db[path][1] \notin valid \/ st.db[path][1] = local

\* C21: invalid remote configuration is rejected in the PWM firmware.  A pull
\* that reads a remote speed outside 0..100 leaves motorSpeed unchanged, one
\* that reads a remote direction other than "forward" or "reverse" leaves
\* motorDirection unchanged; and when a pull finds nothing else to apply to
\* the motor, motorOn and all motor outputs are unchanged too.
C21_InvalidConfigRejected ==
  [][(fw = "pwm" /\ pc = "controls" /\ pc' # "controls") =>
       LET badSpeed == Got(s', "/controls/motor/speed")
                       /\ s.db["/controls/motor/speed"][1] \notin 0..100
           badDirection == Got(s', "/controls/motor/direction")
                           /\ s.db["/controls/motor/direction"][1]
                                \notin {"forward", "reverse"}
       IN  /\ badSpeed => s'.motorSpeed = s.motorSpeed
           /\ badDirection => s'.motorDirection = s.motorDirection
           /\ (/\ badSpeed \/ badDirection
               /\ nothingToApply(s', "/controls/motor/speed", 0..100, s.motorSpeed)
               /\ nothingToApply(s', "/controls/motor/direction",
                                 {"forward", "reverse"}, s.motorDirection)
               /\ s.motorsManual
                  \/ nothingToApply(s', "/controls/motor/on", BOOLEAN, s.motorOn))
              => /\ s'.motorOn = s.motorOn
                 /\ s'.motorSpeed = s.motorSpeed
                 /\ s'.motorDirection = s.motorDirection
                 /\ s'.pin.MOTOR_IN1_PIN = s.pin.MOTOR_IN1_PIN
                 /\ s'.pin.MOTOR_IN2_PIN = s.pin.MOTOR_IN2_PIN
                 /\ s'.pin.MOTOR_PWM_PIN = s.pin.MOTOR_PWM_PIN
                 /\ s'.dutyMax = 0]_vars

\* C21 witness: the motor runs forward at speed 50, and a pull that has just
\* read the speed -1 and the direction "left" has left it so.
C21_Witness ==
  /\ fw = "pwm" /\ pc = "telemetry"
  /\ lastPull(s) = now /\ s.fail = {} /\ s.sub = <<>>
  /\ s.db["/controls/motor/speed"] = Some(-1)
  /\ s.db["/controls/motor/direction"] = Some("left")
  /\ s.motorOn /\ s.motorSpeed = 50 /\ s.motorDirection = "forward"
  /\ s.pin.MOTOR_IN1_PIN = HIGH /\ s.pin.MOTOR_IN2_PIN = LOW
  /\ s.pin.MOTOR_PWM_PIN = 102 /\ s.dutyMax = 0

\* the stored humidity
storedHum(st) == IF fw = "pwm" THEN st.humidity ELSE st.humidityPct

\* the DHT read of the current loop iteration returned not-a-number
dhtFault(st) ==
  st.dhtRead # <<>> /\ (isnan(st.dhtRead[1][1]) \/ isnan(st.dhtRead[1][2]))

\* C22: sensor fault, in both firmwares.  A DHT read that returns
\* not-a-number for the temperature or for the humidity leaves the stored
\* temperature and humidity, the motor's on/off state, its outputs and the
\* automatic trigger state as they were; and when the automatic policy runs
\* later in that iteration it changes the motor only as the retained
\* temperature requires: on at 33.0 or more, off below 31.0.
C22_SensorFaultKeepsValues ==
  [][/\ (pc = "dht" /\ dhtFault(s')) =>
          /\ storedTemp(s') = storedTemp(s)
          /\ storedHum(s') = storedHum(s)
          /\ s'.motorOn = s.motorOn
          /\ s'.pin = s.pin
          /\ s'.sub = <<>>
          /\ fw = "pwm" => s'.autoMotorTriggered = s.autoMotorTriggered
     /\ (pc = "auto" /\ dhtFault(s)) =>
          /\ storedTemp(s') = storedTemp(s)
          /\ (s'.motorOn /\ ~s.motorOn) => storedTemp(s) >= TEMP_THRESHOLD
          /\ (~s'.motorOn /\ s.motorOn) =>
               storedTemp(s) < TEMP_THRESHOLD - TEMP_HYSTERESIS]_vars

\* C22 witness: the motor was switched on automatically at 33.0; the next DHT
\* read returned not-a-number for the humidity; at the end of that iteration
\* the stored values are the old ones and the motor is still on.
C22_Witness ==
  /\ fw = "relay" /\ pc = "loop" /\ iter > 0
  /\ s.dhtRead = << <<Some(330), NaN>> >>
  /\ s.temperatureC = 315 /\ s.humidityPct = 50
  /\ s.motorOn /\ s.autoMotorEnabled /\ ~s.motorsManual

\* the outputs of the motor (of the LEDs) follow its logical state
motorOutputsFollow(st) ==
  IF fw = "pwm"
  THEN IF st.motorOn
       THEN /\ st.pin.MOTOR_IN1_PIN = (st.motorDirection = "forward")
            /\ st.pin.MOTOR_IN2_PIN = (st.motorDirection = "reverse")
            /\ st.pin.MOTOR_PWM_PIN = map(st.motorSpeed, 0, 100, 0, MAX_MOTOR_PWM)
       ELSE /\ st.pin.MOTOR_IN1_PIN = LOW /\ st.pin.MOTOR_IN2_PIN = LOW
            /\ st.pin.MOTOR_PWM_PIN = 0
  ELSE (st.pin.MOTOR_RELAY_PIN = LOW) <=> st.motorOn
ledOutputsFollow(st) ==
  st.pin.LED1_PIN = st.led1On /\ st.pin.LED2_PIN = st.led2On

\* the submissions of the last step made by an actor
subsBy(st, actor) == SelectSeq(st.sub, LAMBDA x : x.actor = actor)

\* C23: offline operation, in both firmwares.  While WiFi never connects and
\* every remote read and write fails, an accepted press of a switch flips the
\* mode of its actuator, sets the actuator on exactly when the new mode is
\* Manual and drives the outputs accordingly; and at the end of a loop
\* iteration in which a light level below 400 (a temperature of at least
\* 33.0) was stored for the first time, with the LEDs (the motor) in Auto
\* mode and the policy enabled, both LEDs are on (the motor is on).
C23_OfflineLocalControl ==
  [][(env \in OfflineEnvs) =>
       /\ (pc = "switches" /\ subsBy(s', "switch_motor") # <<>>) =>
            /\ s'.motorsManual = ~s.motorsManual
            /\ s'.motorOn = s'.motorsManual
            /\ motorOutputsFollow(s')
       /\ (pc = "switches" /\ subsBy(s', "switch_leds") # <<>>) =>
            /\ s'.ledsManual = ~s.ledsManual
            /\ s'.led1On = s'.ledsManual /\ s'.led2On = s'.ledsManual
            /\ ledOutputsFollow(s')
       /\ (pc # "loop" /\ pc' = "loop") =>
            /\ (s'.luxFell /\ ~s'.ledsManual /\ s'.autoLightEnabled) =>
                 (s'.led1On /\ s'.led2On /\ ledOutputsFollow(s'))
            /\ (s'.tempRose /\ ~s'.motorsManual /\ s'.autoMotorEnabled) =>
                 (s'.motorOn /\ motorOutputsFollow(s'))]_vars

\* C24: the loop never halts, in both firmwares.  Whatever the sensors, the
\* remote reads and writes and the WiFi status do, connectWiFi makes at most
\* 20 attempts of 500 ms in the PWM firmware and waits at most 15 s (50
\* delays of 300 ms) in the relay firmware; every call of it returns, also
\* when WiFi never connects, to setup() or to the loop iteration that made
\* it; and every other handler is one step that passes control to the next
\* handler of the iteration, the last one to the end of the iteration.
C24_LoopNeverHalts ==
  /\ [](IF fw = "pwm"
        THEN s.attempts <= 20 /\ s.tick <= 20 * 500
        ELSE s.attempts <= 50
             /\ (pc = "wifi" => usub(millis(s), s.start) <= 15000))
  /\ [][/\ (pc = "wifi" /\ pc' # "wifi") =>
             pc' = (IF iter = 0 THEN "loop" ELSE "sensors")
        /\ (pc \notin {"wifi", "loop"} /\ s'.lastSensorRead # s.lastSensorRead) =>
             pc' = "dht"
        /\ (pc \notin {"wifi", "loop"} /\ pc' # pc) => pc' = NextPc(pc)]_vars
  /\ (pc = "wifi") ~> (pc # "wifi")

\* C24 witness: WiFi did not connect during the 20 attempts of a call of
\* connectWiFi made by loop(), 10 s have gone by, and the iteration has run to
\* its end.
C24_Witness ==
  /\ fw = "pwm" /\ pc = "loop" /\ iter > 0
  /\ s.attempts = 20 /\ s.tick = 10000
  /\ s.lastFirebaseControlCheck = uadd(now, s.tick)

\* C25: WiFi reconnection uses exponential backoff: while WiFi is
\* disconnected, the wait before each test of the connection is longer than
\* the wait before the previous one.
C25_ExponentialBackoff ==
  [][(pc = "wifi" /\ s.wifiWait > 0 /\ s'.attempts = s.attempts + 1) =>
       s'.wifiWait > s.wifiWait]_vars

\* 1 when the values differ, 0 otherwise
changed(a, b) == IF a # b THEN 1 ELSE 0

\* C26: in the PWM firmware every change that checkFirebaseControls applies
\* from the store to the local actuator state submits a notification of the
\* dashboard-originated change: a change of motorOn, led1On or led2On the
\* message that names it, and every change of motorOn, motorSpeed,
\* motorDirection, led1On and led2On a submission of its own by
\* "dashboard_user".
C26_RemoteChangeNotifies ==
  [][(fw = "pwm" /\ pc = "controls" /\ pc' # "controls") =>
       /\ s'.motorOn # s.motorOn =>
            subsAbout(s', {IF s'.motorOn THEN "Motor turned ON via dashboard"
                                         ELSE "Motor turned OFF via dashboard"}) # <<>>
       /\ s'.led1On # s.led1On =>
            subsAbout(s', {IF s'.led1On THEN "LED1 turned ON via dashboard"
                                        ELSE "LED1 turned OFF via dashboard"}) # <<>>
       /\ s'.led2On # s.led2On =>
            subsAbout(s', {IF s'.led2On THEN "LED2 turned ON via dashboard"
                                        ELSE "LED2 turned OFF via dashboard"}) # <<>>
       /\ Len(subsBy(s', "dashboard_user")) >=
            changed(s'.motorOn, s.motorOn) + changed(s'.motorSpeed, s.motorSpeed)
            + changed(s'.motorDirection, s.motorDirection)
            + changed(s'.led1On, s.led1On) + changed(s'.led2On, s.led2On)]_vars

\* the remote pull of the current loop iteration wrote a notification with
\* this message
pulledNow(st, message) ==
  /\ usub(st.lastFirebaseControlCheck, now) <= st.tick
  /\ \E i \in DOMAIN st.notifications :
       /\ st.notifications[i].message = message
       /\ st.notifications[i].key = st.lastFirebaseControlCheck

\* C27: in the PWM firmware, when a pull has read a remote on/off value that
\* differs from the local one while the actuator is in Auto mode, the local
\* on/off state has taken the remote value and still has it at the end of
\* that loop iteration, that is after processAutomaticControls, the last
\* handler of the iteration.
C27_RemoteValueHolds ==
  [][(fw = "pwm" /\ pc = "auto" /\ iter > 0) =>
       /\ pulledNow(s, "Motor turned ON via dashboard") => (s.motorOn /\ s'.motorOn)
       /\ pulledNow(s, "Motor turned OFF via dashboard") => (~s.motorOn /\ ~s'.motorOn)
       /\ pulledNow(s, "LED1 turned ON via dashboard") => (s.led1On /\ s'.led1On)
       /\ pulledNow(s, "LED1 turned OFF via dashboard") => (~s.led1On /\ ~s'.led1On)
       /\ pulledNow(s, "LED2 turned ON via dashboard") => (s.led2On /\ s'.led2On)
       /\ pulledNow(s, "LED2 turned OFF via dashboard") => (~s.led2On /\ ~s'.led2On)]_vars

\* C28: the mode flags are written only by the physical-switch handler, in
\* both firmwares.  No step other than checkManualSwitches / checkSwitches
\* (the remote pull, processAutomaticControls, the sensor reads, connectWiFi
\* and the calls of sendNotification they make) changes motorsManual or
\* ledsManual, whatever the store holds, its manual flags included.
C28_ModeOnlyBySwitch ==
  [][pc # "switches" =>
       /\ s'.motorsManual = s.motorsManual
       /\ s'.ledsManual = s.ledsManual]_vars

\* C28 witness: the switch has put the motor into Manual mode, the store says
\* manual = false and on = false, and a pull has just left the mode (and the
\* motor) alone.
C28_Witness ==
  /\ env = "mode" /\ pc = NextPc("controls")
  /\ lastPull(s) = now /\ s.fail = {}
  /\ s.motorsManual /\ s.motorOn
  /\ s.db["/controls/motor/manual"] = Some(FALSE)
  /\ s.db["/controls/motor/on"] = Some(FALSE)

\* C28 second witness: in Auto mode the store says manual = true and on =
\* true; the pull has switched the motor on and the mode is still Auto.
C28_WitnessRemoteOn ==
  /\ env = "mode" /\ pc = NextPc("controls")
  /\ lastPull(s) = now /\ s.sub # <<>>
  /\ ~s.motorsManual /\ s.motorOn
  /\ s.db["/controls/motor/manual"] = Some(TRUE)

\* the notifications of one type in the store
notificationsOf(st, type) == SelectSeq(st.notifications, LAMBDA x : x.type = type)

\* C29: the motion spacing is measured from the last written motion
\* notification, in both firmwares.  A motion event submitted while
\* notificationCount is below the cap, and 2000 ms or more after every motion
\* notification written so far, is written, whichever other notifications
\* were written in between.
C29_SpacingFromLastMotion ==
  \A k \in DOMAIN s.sub :
    (/\ s.sub[k].type = "motion"
     /\ Len(s.notifications) < MAX_NOTIFICATIONS_PER_MINUTE
     /\ notificationsOf(s, "motion") # <<>>
     /\ \A i \in DOMAIN s.notifications :
          (s.notifications[i].type = "motion" /\ s.notifications[i].key # s.sub[k].key)
          => usub(s.sub[k].key, s.notifications[i].key) >= 2000)
    => s.sub[k].emitted

\* every submission of the step was suppressed
allSuppressed(st) == st.sub # <<>> /\ \A k \in DOMAIN st.sub : ~st.sub[k].emitted

\* the store gains notifications only at the end, and each new one is the
\* record of a submission that the same step emitted
onlyEmittedWritten(before, after) ==
  /\ Len(after.notifications) >= Len(before.notifications)
  /\ SubSeq(after.notifications, 1, Len(before.notifications)) = before.notifications
  /\ \A i \in DOMAIN after.notifications \ DOMAIN before.notifications :
       \E k \in DOMAIN after.sub :
         /\ after.sub[k].emitted
         /\ after.sub[k].key = after.notifications[i].key
         /\ after.sub[k].type = after.notifications[i].type
         /\ after.sub[k].message = after.notifications[i].message

\* sendNotification of the relay firmware opened a new counting window
\* during the step (part_000 lines 132-135)
windowReopened(before, after) ==
  /\ fw = "relay"
  /\ after.notificationCount = 0
  /\ \E k \in DOMAIN after.sub :
       /\ usub(after.sub[k].key, before.notificationMinuteStart) >= NOTIFICATION_MINUTE_MS
       /\ after.notificationMinuteStart = after.sub[k].key

\* C30: a suppressed submission is a silent drop, in both firmwares.  A step
\* in which sendNotification suppresses every event it is given (by the cap
\* or by the spacing) writes nothing under /notifications and leaves
\* notificationCount and lastNotificationTime as they were; and no step
\* writes a notification other than the ones it emits itself, so a
\* suppressed event is never written later.
C30_SilentDrop ==
  [][/\ onlyEmittedWritten(s, s')
     /\ allSuppressed(s') =>
          /\ s'.notifications = s.notifications
          /\ s'.notificationCount = s.notificationCount
          /\ s'.lastNotificationTime = s.lastNotificationTime]_vars

\* C30, amended: as C30, except that sendNotification of the relay firmware
\* opens a new counting window before it tests the cap and the spacing: a
\* submission suppressed 60000 ms or more after notificationMinuteStart
\* leaves notificationCount at 0 and notificationMinuteStart at the time of
\* the submission.  In every other suppression both are unchanged.
C30_SilentDropButWindow ==
  [][/\ onlyEmittedWritten(s, s')
     /\ allSuppressed(s') =>
          /\ s'.notifications = s.notifications
          /\ s'.lastNotificationTime = s.lastNotificationTime
          /\ \/ /\ s'.notificationCount = s.notificationCount
                /\ s'.notificationMinuteStart = s.notificationMinuteStart
             \/ windowReopened(s, s')]_vars

\* C30 witness: the relay firmware has suppressed a motion event 1000 ms
\* after a dashboard notification; the submission opened a new window, so
\* notificationCount is 0 while the store holds the one notification.
C30_Witness ==
  /\ fw = "relay" /\ env = "mixed"
  /\ Len(s.sub) = 1 /\ s.sub[1].type = "motion" /\ ~s.sub[1].emitted
  /\ s.notificationCount = 0 /\ s.notificationMinuteStart = s.sub[1].key
  /\ Len(s.notifications) = 1
  /\ s.lastNotificationTime = s.notifications[1].key
  /\ usub(s.sub[1].key, s.lastNotificationTime) = 1000

\* C30 second witness: a submission suppressed by the cap, the counter
\* staying at 10.
C30_WitnessCap ==
  /\ env = "notify"
  /\ allSuppressed(s) /\ s.sub[1].type # "motion"
  /\ s.notificationCount = MAX_NOTIFICATIONS_PER_MINUTE

\* C31: rate limiting never blocks for good, in both firmwares.  Once
\* notificationCount has reached the cap of 10, a notification other than a
\* motion one that is submitted 60000 ms or more after the start of the
\* current window is tested against a counter that was reset to 0, and is
\* written.
C31_CapReleased ==
  [][pc' # pc =>
       \A k \in DOMAIN s'.sub :
         (/\ s.notificationCount >= MAX_NOTIFICATIONS_PER_MINUTE
          /\ s'.sub[k].type # "motion"
          /\ usub(s'.sub[k].key, s.notificationMinuteStart) >= NOTIFICATION_MINUTE_MS)
         => s'.sub[k].emitted]_vars

\* the firmware's globals, its pins and the store, without the observations
program(st) ==
  [f \in DOMAIN (IF fw = "pwm" THEN PwmGlobals ELSE RelayGlobals) |-> st[f]]

\* the configured interval of the sensor sampling
sensorInterval == IF fw = "pwm" THEN SENSOR_READ_INTERVAL ELSE SENSOR_READ_INTERVAL_MS

\* a periodic subsystem whose timestamp is the field last, called at position
\* p of loop(): when a step runs it, the interval has passed since it last
\* ran, and a step at p that does not run it changes nothing
cadence(p, last, interval) ==
  /\ s'[last] # s[last] => pc = p /\ usub(s'[last], s[last]) >= interval
  /\ (pc = p /\ pc' # p /\ s'[last] = s[last]) => program(s') = program(s)

\* C32: polling cadence, in both firmwares.  Two successive runs of a
\* periodic subsystem are at least its interval apart: sensor sampling (100 ms
\* PWM, 200 ms relay), DHT read (10000 ms), telemetry push (5000 ms), remote
\* pull (1000 ms).  A telemetry push is attempted again once more than 5000 ms
\* have passed since the last one, whether the writes of that one failed or
\* not.
C32_PollingCadence ==
  [][/\ cadence("sensors", "lastSensorRead", sensorInterval)
     /\ cadence("dht", "lastDHTRead", DHT_READ_INTERVAL_MS)
     /\ cadence("telemetry", "lastFirebaseUpdate", FIREBASE_UPDATE_MS)
     /\ cadence("controls", IF fw = "pwm" THEN "lastFirebaseControlCheck" ELSE "lastCheck",
                1000)
     /\ (/\ pc = "telemetry" /\ pc' # pc
         /\ usub(now, s.lastFirebaseUpdate) > FIREBASE_UPDATE_MS) =>
          /\ s'.lastFirebaseUpdate = now
          /\ s'.fail = {} => s'.db["/meta/last_seen"] = Some(now)]_vars

\* C32 witness: a telemetry push whose writes failed is followed by a push
\* that reaches the store.
C32_Witness ==
  /\ env = "cadence" /\ pc = NextPc("telemetry")
  /\ s.pushFailed = <<TRUE, FALSE>> /\ s.lastFirebaseUpdate = now
  /\ s.db["/meta/last_seen"] = Some(now)
  /\ s.db["/sensors/lux"] = Some(s.ldrValue)

\* C32 second witness: the loop has come round 100 ms after a sensor sample
\* and has not sampled again.
C32_WitnessSkipped ==
  /\ env = "cadence" /\ pc = NextPc("sensors")
  /\ usub(now, s.lastSensorRead) = 100 /\ s.lastSensorRead > 0

\* the handler calls loop() has made in the current iteration when it stands
\* before the call at position p
RECURSIVE callsFrom(_, _)
callsFrom(p, q) == IF p = q THEN {} ELSE {p} \cup callsFrom(NextPc(p), q)
handled(p) == callsFrom("sensors", p)

\* C33: tick ordering in the PWM firmware.  In every loop iteration the
\* sensor and switch handling comes before processAutomaticControls, which
\* (with the actuator writes it makes) comes before the telemetry push
\* updateFirebaseSensors of that iteration.
C33_TickOrder ==
  (fw = "pwm" /\ pc \in {"auto", "telemetry"}) =>
    /\ pc = "auto" => {"sensors", "dht", "switches"} \subseteq handled(pc)
    /\ pc = "telemetry" => "auto" \in handled(pc)

\* the last notification in the store made by an actor is this message and was
\* written in an earlier loop iteration than the one that has just ended
lastByWas(st, actor, message) ==
  LET n == SelectSeq(st.notifications, LAMBDA x : x.actor = actor)
  IN  n # <<>> /\ n[Len(n)].message = message /\ n[Len(n)].key < now

\* C34: in the PWM firmware, after a press of the switch has returned the
\* motor from Manual to Auto mode while auto-motor is enabled and the stored
\* temperature is at least 33.0, the automatic policy has turned the motor on
\* by the end of the next loop iteration, without the temperature having
\* fallen below 31.0 first; likewise both LEDs are on by then after a return
\* to Auto mode while the stored light level is below 400.
C34_AutoResumes ==
  (fw = "pwm" /\ pc = "loop" /\ iter > 0) =>
    /\ (/\ lastByWas(s, "switch_motor", "Motor manually turned OFF")
        /\ ~s.motorsManual /\ s.autoMotorEnabled
        /\ s.temperature >= TEMP_THRESHOLD) => s.motorOn
    /\ (/\ lastByWas(s, "switch_leds", "LEDs manually turned OFF")
        /\ ~s.ledsManual /\ s.autoLightEnabled
        /\ s.ldrValue < LDR_THRESHOLD) => (s.led1On /\ s.led2On)

\* the store holds the local on/off state of the three actuators
storeMirrors(st) ==
  /\ st.db["/controls/motor/on"] = Some(st.motorOn)
  /\ st.db["/controls/led1/on"] = Some(st.led1On)
  /\ st.db["/controls/led2/on"] = Some(st.led2On)

\* C35: the store mirrors the local state, in the PWM firmware.  While every
\* remote write succeeds and nothing but the firmware writes the control
\* paths it reads, at the end of every loop iteration /controls/motor/on,
\* /controls/led1/on and /controls/led2/on hold motorOn, led1On and led2On;
\* so a pull changes none of the three and submits no notification of
\* 'dashboard_user'.
C35_StoreMirrors ==
  [][fw = "pwm" =>
       /\ pc' = "loop" => storeMirrors(s')
       /\ (pc = "controls" /\ pc' # pc) =>
            /\ s'.motorOn = s.motorOn
            /\ s'.led1On = s.led1On /\ s'.led2On = s.led2On
            /\ subsBy(s', "dashboard_user") = <<>>]_vars

\* C35 witness: the motor was switched on automatically, taken to Manual and
\* back to Auto by the switch; a pull has just read the store, which holds
\* the local 'off'.
C35_Witness ==
  /\ fw = "pwm" /\ env = "mirrorMotor" /\ pc = NextPc("controls")
  /\ s.lastFirebaseControlCheck = now
  /\ s.autoMotorTriggered /\ ~s.motorOn /\ ~s.motorsManual
  /\ s.db["/controls/motor/on"] = Some(FALSE)
  /\ s.db["/controls/motor/manual"] = Some(FALSE)

\* C36: a failed best-effort write never changes local control state, in the
\* PWM firmware.  When the write of an on/off value decided by the automatic
\* policy or by a switch to /controls/.../on has failed, the remote reads
\* succeed and the dashboard writes none of these paths, the actuators keep
\* the locally decided values: no pull changes motorOn, led1On or led2On
\* back to the value the store still holds.
C36_FailedWriteKeepsLocal ==
  [][(fw = "pwm" /\ env = "stale" /\ pc = "controls" /\ pc' # pc) =>
       /\ s'.motorOn = s.motorOn
       /\ s'.led1On = s.led1On
       /\ s'.led2On = s.led2On]_vars

\* the step that has just ended submitted this message
submitted(st, message) == \E k \in DOMAIN st.sub : st.sub[k].message = message

\* C37: in the relay firmware, with the motor in Auto mode and auto-motor
\* enabled, a dashboard 'motor on' that checkFirebaseControls has applied is
\* not reverted by processAutomaticControls in the same loop iteration:
\* motorOn is still true after it, whatever the stored temperature; likewise a
\* dashboard 'LED off' is still in effect after it, whatever the stored light
\* level.
C37_RelayRemoteHolds ==
  [][(fw = "relay" /\ pc = "auto") =>
       /\ (/\ submitted(s, "Motor turned ON via dashboard")
           /\ ~s.motorsManual /\ s.autoMotorEnabled) => (s.motorOn /\ s'.motorOn)
       /\ (/\ submitted(s, "LED1 OFF via dashboard")
           /\ ~s.ledsManual /\ s.autoLightEnabled) => (~s.led1On /\ ~s'.led1On)
       /\ (/\ submitted(s, "LED2 OFF via dashboard")
           /\ ~s.ledsManual /\ s.autoLightEnabled) => (~s.led2On /\ ~s'.led2On)]_vars

\* the trigger state of a policy: the flag of the PWM firmware; the relay
\* firmware has none besides the on/off state
lightTrigger(st) == IF fw = "pwm" THEN st.autoLightTriggered ELSE FALSE
motorTrigger(st) == IF fw = "pwm" THEN st.autoMotorTriggered ELSE FALSE

\* C38: the auto-enable gate, in both firmwares.  While autoLightEnabled
\* (autoMotorEnabled) is false, processAutomaticControls changes neither
\* the on/off state of the LEDs (of the motor) nor the trigger state and
\* submits no automatic notification for them, whatever the readings; and
\* the flag changes only in a pull whose read of /controls/led1/auto_enabled
\* (/controls/motor/auto_enabled) succeeded, to the value read.
C38_AutoEnableGate ==
  [][/\ (pc = "auto" /\ ~s.autoLightEnabled) =>
          /\ s'.led1On = s.led1On /\ s'.led2On = s.led2On
          /\ lightTrigger(s') = lightTrigger(s)
          /\ subsBy(s', "auto_light") = <<>> /\ subsBy(s', "auto_light_off") = <<>>
     /\ (pc = "auto" /\ ~s.autoMotorEnabled) =>
          /\ s'.motorOn = s.motorOn
          /\ motorTrigger(s') = motorTrigger(s)
          /\ subsBy(s', "auto_temp") = <<>> /\ subsBy(s', "auto_temp_off") = <<>>
     /\ s'.autoLightEnabled # s.autoLightEnabled =>
          /\ pc = "controls" /\ "/controls/led1/auto_enabled" \notin s'.fail
          /\ s.db["/controls/led1/auto_enabled"] = Some(s'.autoLightEnabled)
     /\ s'.autoMotorEnabled # s.autoMotorEnabled =>
          /\ pc = "controls" /\ "/controls/motor/auto_enabled" \notin s'.fail
          /\ s.db["/controls/motor/auto_enabled"] = Some(s'.autoMotorEnabled)]_vars

\* C38 witness: auto-motor is disabled, the motor is off in Auto mode, the
\* stored temperature is 33.0 and processAutomaticControls has just run.
C38_Witness ==
  /\ pc = NextPc("auto") /\ iter > 0
  /\ ~s.autoMotorEnabled /\ ~s.motorsManual /\ ~s.motorOn
  /\ storedTemp(s) >= TEMP_THRESHOLD
  /\ s.dhtRead # <<>>

\* C38 second witness: the dashboard has written auto_enabled = false for the
\* LEDs, the read of it failed in the pull that has just run, and
\* autoLightEnabled is still true.
C38_WitnessReadFailed ==
  /\ env = "failAuto" /\ pc = NextPc("controls")
  /\ lastPull(s) = now
  /\ "/controls/led1/auto_enabled" \in s.fail
  /\ s.db["/controls/led1/auto_enabled"] = Some(FALSE)
  /\ s.autoLightEnabled

\* C39: the two firmwares implement the same automatic policy.  Starting
\* with the actuators off, in Auto mode with both policies enabled, with no
\* switch press and no remote change, after every sequence of light levels
\* and temperatures the PWM firmware (trigger flags autoLightTriggered /
\* autoMotorTriggered) and the relay firmware (the on/off state as trigger)
\* have the LEDs and the motor in the same on/off state: at the end of every
\* loop iteration the two agree.
C39_SamePolicy ==
  (env = "twin" /\ pc = "loop") =>
    /\ s.twin.motorOn = s.motorOn
    /\ s.twin.led1On = s.led1On
    /\ s.twin.led2On = s.led2On
    /\ s.twin.temperature = s.temperatureC
    /\ s.twin.ldrValue = s.ldrValue

\* C39 witness: both firmwares switched the motor on at 33.0 and the LEDs on
\* at 399; the readings are now 31.0 and 450, inside the bands, and both
\* have kept everything on.
C39_Witness ==
  /\ env = "twin" /\ pc = "loop" /\ iter >= 2
  /\ s.temperatureC = 310 /\ s.ldrValue = 450
  /\ s.motorOn /\ s.led1On /\ s.led2On
  /\ s.twin.motorOn /\ s.twin.led1On /\ s.twin.led2On
  /\ s.twin.autoMotorTriggered /\ s.twin.autoLightTriggered

\* C39 second witness: both have switched everything off again.
C39_WitnessOff ==
  /\ env = "twin" /\ pc = "loop" /\ iter >= 2
  /\ s.twin.temperature = 309 /\ s.twin.ldrValue = 451
  /\ ~s.motorOn /\ ~s.led1On /\ ~s.twin.motorOn /\ ~s.twin.led1On
  /\ Len(s.twin.notifications) = 4 /\ Len(s.notifications) = 4

\* a subsystem whose timestamp is the field last, called at position p of
\* loop(): it is not run before interval ms have really passed since it last
\* ran, and it is run by the first iteration that reads millis() more than
\* interval ms after
onTime(p, last, interval) ==
  /\ s'[last] # s[last] => s'.ranAt[last] - s.ranAt[last] >= interval
  /\ (pc = p /\ pc' # p /\ s.real0 - s.ranAt[last] > interval) =>
       /\ s'[last] # s[last]
       /\ s'.ranAt[last] >= s.real0

\* C40: wrap-around of millis().  In both firmwares, in every loop iteration
\* before, across and after the wrap: sensor sampling, the DHT read, the
\* telemetry push and the remote pull are not run earlier than their interval
\* of real time after their last run, and are run by the first iteration that
\* comes more than the interval after it; the rate-limit window is not
\* restarted earlier than 60000 ms after it began (and the PWM firmware
\* restarts it in the first iteration more than 60000 ms after); a switch is
\* not accepted earlier than the debounce delay after the last accepted one.
C40_WrapSafe ==
  [][iter' > 0 =>
       /\ onTime("sensors", "lastSensorRead", sensorInterval)
       /\ onTime("dht", "lastDHTRead", DHT_READ_INTERVAL_MS)
       /\ onTime("telemetry", "lastFirebaseUpdate", FIREBASE_UPDATE_MS)
       /\ onTime("controls",
                 IF fw = "pwm" THEN "lastFirebaseControlCheck" ELSE "lastCheck", 1000)
       /\ s'.notificationMinuteStart # s.notificationMinuteStart =>
            s'.ranAt.notificationMinuteStart - s.ranAt.notificationMinuteStart
              >= NOTIFICATION_MINUTE_MS
       /\ (fw = "pwm" /\ pc = "loop" /\ pc' # pc
           /\ s'.real0 - s.ranAt.notificationMinuteStart > 60000) =>
            s'.notificationMinuteStart = now' /\ s'.notificationCount = 0
       /\ \A f \in {"lastMotorSwitchTime", "lastLedsSwitchTime"} :
            s'[f] # s[f] =>
              s'.ranAt[f] - s.ranAt[f]
                > (IF fw = "pwm" THEN DEBOUNCE_DELAY ELSE DEBOUNCE_DELAY_MS)]_vars

\* C40 witness: millis() has wrapped, the last DHT read was before the wrap,
\* and the DHT has just been read, more than 10000 ms after that read.
C40_Witness ==
  /\ env = "wrap" /\ pc = NextPc("dht")
  /\ s.real0 >= ClockMod /\ now < WrapLead + 60001
  /\ s.lastDHTRead = now /\ s.ranAt.lastDHTRead = s.real0
  /\ Len(s.dhtRead) = 1

\* C40 second witness: millis() has wrapped 5101 ms after the last DHT read,
\* whose timestamp is greater than millis(), and the DHT has not been read.
C40_WitnessSkipped ==
  /\ env = "wrap" /\ pc = NextPc("dht")
  /\ s.real0 >= ClockMod /\ s.lastDHTRead > now
  /\ s.real0 - s.ranAt.lastDHTRead = 5101
  /\ s.dhtRead = <<>>

====
